---- MODULE Spec2Model ----
(***************************************************************************)
(* A model of the SQL authorization code of HSQLChatbot.                   *)
(*                                                                         *)
(*   - validateQuery (be/internal/db/db.go): the facade that parses a      *)
(*     query text and accepts or refuses it for the caller's role.         *)
(*   - AuthorizationService (be/internal/db/authorization.go): the walker  *)
(*     over the parse tree, its sub-authorizers and the two obligation     *)
(*     combinators, together with TableInfoV2 (table_info.go).             *)
(*                                                                         *)
(* The Go code works on pointers: scope maps (om.OrderedMap) and table     *)
(* descriptors (TableInfoV2) are shared and updated in place.  The model   *)
(* keeps them in an explicit heap (a sequence of objects, an address is an *)
(* index, 0 is nil), so that aliasing and in-place updates are the code's. *)
(* A nil-pointer dereference ends a call with st = "panic", unbounded      *)
(* recursion with st = "overflow", a returned Go error with st = "err".    *)
(*                                                                         *)
(* The parser (pg_query) is a library: a parsed text is modelled by its    *)
(* parse tree, a record with a field t naming the node variant.            *)
(***************************************************************************)
EXTENDS Integers, Sequences, FiniteSets, TLC

VARIABLES req, resp, producer, consumer, pending, chunk, closed, recvd,
          written, copyOfNil

\* the streaming of an answer: producer is where the goroutine started by
\* StreamComplete stands, consumer where the loop of StreamChatResponse
\* stands, pending the chunk the goroutine is sending, chunk the one the
\* loop received, closed whether the channel chunks is closed, recvd the
\* number of responses stream.Recv has delivered, written what was sent to
\* the client; copyOfNil is what DeepCopy does with a nil scope
svars ==
    <<producer, consumer, pending, chunk, closed, recvd, written, copyOfNil>>

vars ==
    <<req, resp, producer, consumer, pending, chunk, closed, recvd, written,
      copyOfNil>>

(***************************************************************************)
(* Bounds of the model.                                                    *)
(***************************************************************************)
\* user ids and integer literals range over 1..MaxId
MaxId == 2
\* the largest number of arguments of an AND / OR node that is enumerated
MaxArgs == 2

Ids == 1..MaxId

\* The({e : x \in {v}}) is e with x bound to the value of v: the result of
\* a call is taken once and named, as a Go assignment does
The(S) == CHOOSE e \in S : TRUE

(***************************************************************************)
(* Parse-tree nodes.                                                       *)
(***************************************************************************)
NilNode == [t |-> "Nil"]

RangeVar(rel, alias) == [t |-> "RangeVar", rel |-> rel, alias |-> alias]

ColumnRef(fs) == [t |-> "ColumnRef", fields |-> fs]

\* an A_Const: kind "int" carries ival; "str" and "bool" carry no Integer
AConst(kind, i) == [t |-> "AConst", kind |-> kind, ival |-> i]

AExpr(kind, name, l, r) ==
    [t |-> "AExpr", kind |-> kind, name |-> name, l |-> l, r |-> r]

BoolExpr(op, args) == [t |-> "BoolExpr", op |-> op, args |-> args]

\* a Node_BoolExpr whose BoolExpr pointer is nil
NilBoolExpr == [t |-> "BoolExpr", op |-> "nil", args |-> <<>>]

SubLink(sub) == [t |-> "SubLink", sub |-> sub]

ListNode(items) == [t |-> "List", items |-> items]

RowExpr(args) == [t |-> "RowExpr", args |-> args]

ResTarget(val, name) == [t |-> "ResTarget", val |-> val, name |-> name]

JoinExpr(jt, l, r, quals, using, natural, alias) ==
    [t |-> "JoinExpr", jt |-> jt, larg |-> l, rarg |-> r, quals |-> quals,
     using |-> using, natural |-> natural, alias |-> alias]

RangeSubselect(lateral, sub, alias, colnames) ==
    [t |-> "RangeSubselect", lateral |-> lateral, sub |-> sub,
     alias |-> alias, colnames |-> colnames]

CommonTableExpr(name, query) ==
    [t |-> "CommonTableExpr", name |-> name, query |-> query]

\* a statement that is not a SELECT (INSERT, UPDATE, DELETE)
OtherStmt(what) == [t |-> what]

\* a SelectStmt; op is "NONE", "UNION", "INTERSECT" or "EXCEPT"; tl is the
\* target list, hasTl tells a nil target list from an empty one
SelectStmt(into, ctes, op, larg, rarg, from, where, having, hasTl, tl) ==
    [t |-> "SelectStmt", into |-> into, ctes |-> ctes, op |-> op,
     larg |-> larg, rarg |-> rarg, from |-> from, where |-> where,
     having |-> having, hasTl |-> hasTl, tl |-> tl]

StarTarget == ResTarget(ColumnRef(<<"*">>), "")

\* SELECT * FROM from WHERE where
Select(from, where) ==
    SelectStmt(FALSE, <<>>, "NONE", NilNode, NilNode, from, where, NilNode,
               TRUE, <<StarTarget>>)

SetOp(op, l, r) ==
    SelectStmt(FALSE, <<>>, op, l, r, <<>>, NilNode, NilNode, FALSE, <<>>)

(***************************************************************************)
(* Schema catalog: db.go isPublicTable and authorization.go                *)
(* getAuthorizationColumn.                                                 *)
(***************************************************************************)
publicTables ==
    {"faculty", "program", "course", "course_program", "course_class",
     "course_class_schedule"}

isPublicTable(tableName) == tableName \in publicTables

getAuthorizationColumn(name, role) ==
    IF role = "admin" THEN ""
    ELSE IF name \in {"program", "semester", "course", "course_program",
                      "course_class", "course_class_schedule",
                      "course_schedule_instructor", "faculty"} THEN ""
    ELSE IF role = "student" THEN
        CASE name = "student" -> "id"
          [] name = "administrative_class" -> "id"
          [] name = "student_course_class" -> "student_id"
          [] name = "student_scholarship" -> "student_id"
          [] OTHER -> ""
    ELSE IF role = "professor" THEN
        CASE name = "professor" -> "id"
          [] name = "administrative_class" -> "advisor_id"
          [] name = "course_class" -> "professor_id"
          [] name = "course_schedule_instructor" -> "professor_id"
          [] OTHER -> ""
    ELSE ""

\* SchemaService.GetColumns as the tests' MockSchemaService answers it
GetColumns(tableName) ==
    CASE tableName = "student" ->
             <<"id", "code", "name", "gender", "birthday", "email",
               "administrative_class_id">>
      [] tableName = "professor" ->
             <<"id", "name", "email", "academic_rank", "degree",
               "department_id">>
      [] tableName = "course" ->
             <<"id", "code", "name", "english_name", "credits",
               "practice_hours", "theory_hours", "self_learn_hours",
               "prerequisite">>
      [] tableName = "administrative_class" ->
             <<"id", "name", "program_id", "advisor_id">>
      [] OTHER -> <<>>

(***************************************************************************)
(* The facade: db.go validateQuery.  A query text is modelled by what      *)
(* pgquery.Parse returns for it: an error, or the list of its statements.  *)
(***************************************************************************)
Parsed(stmts) == [parseErr |-> FALSE, stmts |-> stmts]

ParseFailure == [parseErr |-> TRUE, stmts |-> <<>>]

RECURSIVE extractTables(_)
RECURSIVE extractTablesFrom(_, _)

\* one iteration of the loop of extractTables over stmt.FromClause
extractTablesItem(item) ==
    IF item.t = "RangeVar" THEN <<item.rel>>
    ELSE IF item.t = "JoinExpr" THEN
        (IF item.larg.t = "RangeVar" THEN <<item.larg.rel>> ELSE <<>>)
        \o (IF item.rarg.t = "RangeVar" THEN <<item.rarg.rel>> ELSE <<>>)
    ELSE IF item.t = "RangeSubselect" /\ item.sub.t = "SelectStmt" THEN
        extractTables(item.sub)
        \o (IF item.alias # "" THEN <<"derived_table">> ELSE <<>>)
    ELSE <<>>

extractTablesFrom(from, i) ==
    IF i > Len(from) THEN <<>>
    ELSE extractTablesItem(from[i]) \o extractTablesFrom(from, i + 1)

extractTables(stmt) == extractTablesFrom(stmt.from, 1)

\* ctx is what ctx.Value("userRole") finds: <<>> for a context without the
\* key, <<role>> for one that carries it.  Line 142 asserts the value to be
\* a string without the two-value form, so a context without the key
\* panics there, after the statement was found to be a SELECT
validateQuery(ctx, parsed) ==
    IF parsed.parseErr
    THEN [st |-> "ok", valid |-> FALSE, msg |-> "Failed to parse SQL query",
          err |-> TRUE]
    ELSE IF Len(parsed.stmts) = 0
    THEN [st |-> "ok", valid |-> FALSE, msg |-> "Empty query", err |-> FALSE]
    ELSE IF parsed.stmts[1].t # "SelectStmt"
    THEN [st |-> "ok", valid |-> FALSE,
          msg |-> "Only SELECT queries are allowed", err |-> FALSE]
    ELSE IF Len(ctx) = 0
    THEN [st |-> "panic", valid |-> FALSE, msg |-> "", err |-> FALSE]
    ELSE LET tables == extractTables(parsed.stmts[1])
             userRole == ctx[1]
         IN
         CASE userRole = "admin" ->
                [st |-> "ok", valid |-> TRUE, msg |-> "", err |-> FALSE]
           [] userRole = "student" ->
                \* the loop over tables only skips public tables
                [st |-> "ok",
                 valid |-> \A i \in 1..Len(tables) :
                               isPublicTable(tables[i]) \/ TRUE,
                 msg |-> "", err |-> FALSE]
           [] userRole = "professor" ->
                [st |-> "ok",
                 valid |-> \A i \in 1..Len(tables) :
                               isPublicTable(tables[i]) \/ TRUE,
                 msg |-> "", err |-> FALSE]
           [] OTHER ->
                [st |-> "ok", valid |-> FALSE,
                 msg |-> "Unknown role: " \o userRole, err |-> FALSE]

\* db.go 46-115, ExecuteQuery: the context is handed to validateQuery as it
\* came; an error and a refusal of the validation are returned as errors;
\* an accepted text is run on the database, and db tells where that fails:
\* in the query (56-59), in rows.Columns (63-66), in rows.MapScan (76-79),
\* in rows.Err (106-108), or nowhere
ExecuteQuery(ctx, parsed, db) ==
    LET v == validateQuery(ctx, parsed) IN
    IF v.st = "panic"
    THEN [st |-> "panic", valid |-> FALSE, msg |-> "", err |-> FALSE]
    ELSE IF v.err
    THEN [st |-> "ok", valid |-> FALSE,
          msg |-> "error validating query: <parse error>", err |-> TRUE]
    ELSE IF ~v.valid
    THEN [st |-> "ok", valid |-> FALSE, msg |-> "invalid query: " \o v.msg,
          err |-> TRUE]
    ELSE [st |-> "ok", valid |-> TRUE,
          msg |-> CASE db = "query" -> "error executing query: "
                    [] db = "columns" -> "error getting columns: "
                    [] db = "scan" -> "error scanning row: "
                    [] db = "rows" -> "error iterating rows: "
                    [] OTHER -> "",
          err |-> db # "ok"]

(***************************************************************************)
(* The heap.  An ordered map object keeps its entries in insertion order;  *)
(* a table descriptor object is a TableInfoV2.  Columns is the ordered map *)
(* alias -> ColumnInfo, kept inside the descriptor (hasColumns is FALSE    *)
(* for a nil Columns map); src is ColumnInfo.SourceTable, un is            *)
(* UnAuthorizedTables; both are addresses.                                 *)
(***************************************************************************)
Nil == 0

MapObj(es) == [k |-> "map", es |-> es]

TblObj(name, alias, isDb, hasCols, cols, un) ==
    [k |-> "tbl", Name |-> name, Alias |-> alias, IsDatabase |-> isDb,
     hasColumns |-> hasCols, Columns |-> cols, un |-> un]

Col(alias, name, src) == [alias |-> alias, Name |-> name, src |-> src]

\* om.NewOrderedMap()
NewOrderedMap(h) == [h |-> Append(h, MapObj(<<>>)), a |-> Len(h) + 1]

IndexOf(es, key) ==
    IF \E i \in 1..Len(es) : es[i].key = key
    THEN CHOOSE i \in 1..Len(es) : es[i].key = key
    ELSE 0

\* OrderedMap.Get, Set, Delete, Len on a non-nil map m
MapHas(h, m, key) == IndexOf(h[m].es, key) # 0

MapGet(h, m, key) == h[m].es[IndexOf(h[m].es, key)].val

MapSet(h, m, key, val) ==
    LET es == h[m].es
        i == IndexOf(es, key)
    IN [h EXCEPT ![m].es =
            IF i = 0 THEN Append(es, [key |-> key, val |-> val])
            ELSE [es EXCEPT ![i].val = val]]

SeqWithout(es, key) ==
    LET keep == {i \in 1..Len(es) : es[i].key # key}
        nth(n) == CHOOSE i \in keep : Cardinality({j \in keep : j < i}) = n - 1
    IN [n \in 1..Cardinality(keep) |-> es[nth(n)]]

MapDelete(h, m, key) == [h EXCEPT ![m].es = SeqWithout(h[m].es, key)]

MapLen(h, m) == Len(h[m].es)

\* om.NewOrderedMapWithElements with one element
NewOrderedMapWithElements(h, key, val) ==
    [h |-> Append(h, MapObj(<<[key |-> key, val |-> val]>>)),
     a |-> Len(h) + 1]

\* outcomes of a helper that returns an address or a string
Ok(h, a) == [st |-> "ok", h |-> h, a |-> a]

Fail(st, h) == [st |-> st, h |-> h, a |-> Nil]

(***************************************************************************)
(* table_info.go: Clone and getAliasOfColumn.  Go recursion that never     *)
(* ends (a descriptor reachable from its own obligations, a virtual        *)
(* descriptor whose column names itself as its source) overflows the       *)
(* stack: fuel counts the descriptors a finite descent can still visit.    *)
(***************************************************************************)
RECURSIVE Clone(_, _, _)
RECURSIVE CloneUnAuthorized(_, _, _, _, _)

\* the loop of Clone over t.UnAuthorizedTables: es is the source entries,
\* m the clone's new obligation map
CloneUnAuthorized(h, es, i, m, fuel) ==
    IF i > Len(es) THEN Ok(h, m)
    ELSE The({IF r.st # "ok" THEN r
              ELSE CloneUnAuthorized(MapSet(r.h, m, es[i].key, r.a), es,
                                     i + 1, m, fuel) :
              r \in {Clone(h, es[i].val, fuel - 1)}})

Clone(h, t, fuel) ==
    IF t = Nil THEN Ok(h, Nil)
    ELSE IF fuel <= 0 THEN Fail("overflow", h)
    ELSE LET c == Len(h) + 1
             cols == [i \in 1..Len(h[t].Columns) |->
                         Col(h[t].Columns[i].alias, h[t].Columns[i].Name, c)]
             h1 == Append(h, TblObj(h[t].Name, h[t].Alias, h[t].IsDatabase,
                                    h[t].hasColumns, cols, Nil))
         IN IF h[t].un = Nil THEN Ok(h1, c)
            ELSE The({IF r.st # "ok" THEN r ELSE Ok(r.h, c) :
                      r \in {CloneUnAuthorized(
                                 [NewOrderedMap(h1).h EXCEPT
                                      ![c].un = NewOrderedMap(h1).a],
                                 h[h[t].un].es, 1, NewOrderedMap(h1).a,
                                 fuel)}})

RECURSIVE getAliasOfColumnFrom(_, _, _, _, _)

\* the result is [st, v]: v is the alias found, "" for none
getAliasOfColumnFrom(h, t, str, i, fuel) ==
    IF t = Nil \/ ~h[t].hasColumns THEN [st |-> "panic", v |-> ""]
    ELSE IF fuel <= 0 THEN [st |-> "overflow", v |-> ""]
    ELSE IF i > Len(h[t].Columns) THEN [st |-> "ok", v |-> ""]
    ELSE LET col == h[t].Columns[i] IN
         IF col.src = Nil THEN [st |-> "panic", v |-> ""]
         ELSE IF h[col.src].IsDatabase THEN
              IF col.Name = str THEN [st |-> "ok", v |-> col.alias]
              ELSE getAliasOfColumnFrom(h, t, str, i + 1, fuel)
         ELSE The({IF recurResult.st # "ok" THEN recurResult
                   ELSE IF recurResult.v # ""
                   THEN [st |-> "ok", v |-> col.alias]
                   ELSE getAliasOfColumnFrom(h, t, str, i + 1, fuel) :
                   recurResult \in {getAliasOfColumnFrom(h, col.src, str, 1,
                                                         fuel - 1)}})

getAliasOfColumn(h, t, str) == getAliasOfColumnFrom(h, t, str, 1, Len(h) + 1)

(***************************************************************************)
(* DeepCopy is called by authorization.go but defined outside the given    *)
(* sources: a new scope map holding a Clone of every descriptor.  What it  *)
(* does with a nil scope is not told: copyOfNil, fixed when the program is *)
(* built, is "nil" when it returns nil, "empty" when it returns a new      *)
(* empty map, "panic" when it ranges over the nil map.                     *)
(***************************************************************************)
RECURSIVE DeepCopyFrom(_, _, _, _)

DeepCopyFrom(h, es, i, m) ==
    IF i > Len(es) THEN Ok(h, m)
    ELSE The({IF r.st # "ok" THEN r
              ELSE DeepCopyFrom(MapSet(r.h, m, es[i].key, r.a), es, i + 1,
                                m) :
              r \in {Clone(h, es[i].val, Len(h) + 1)}})

DeepCopy(h, tables) ==
    IF tables = Nil
    THEN CASE copyOfNil = "nil" -> Ok(h, Nil)
           [] copyOfNil = "empty" ->
                Ok(NewOrderedMap(h).h, NewOrderedMap(h).a)
           [] OTHER -> Fail("panic", h)
    ELSE LET m == NewOrderedMap(h) IN
         DeepCopyFrom(m.h, h[tables].es, 1, m.a)

(***************************************************************************)
(* authorization.go MergeMaps: dst.Set for every entry of src; neither a   *)
(* nil src can be ranged over nor a nil dst written to.                    *)
(***************************************************************************)
RECURSIVE MergeMapsFrom(_, _, _, _)

MergeMapsFrom(h, dst, es, i) ==
    IF i > Len(es) THEN Ok(h, dst)
    ELSE IF dst = Nil THEN Fail("panic", h)
    ELSE MergeMapsFrom(MapSet(h, dst, es[i].key, es[i].val), dst, es, i + 1)

MergeMaps(h, dst, src) ==
    IF src = Nil THEN Fail("panic", h)
    ELSE MergeMapsFrom(h, dst, h[src].es, 1)

(***************************************************************************)
(* The obligation combinators.  Both first collect, per descriptor alias   *)
(* of dst, the aliases of the obligations that remain in any scope of      *)
(* tablesList; writing under an alias that dst does not hold is a write to *)
(* a nil Go map.                                                           *)
(***************************************************************************)
\* the keys given to tableUnAuth / tableAuth by the loop over dst
dstAliases(h, dst) == {h[h[dst].es[i].val].Alias : i \in 1..Len(h[dst].es)}

\* a nil dereference in the setup or in the collecting pass
collectPanics(h, dst, tablesList) ==
    \/ dst = Nil
    \/ \E i \in 1..Len(h[dst].es) : h[dst].es[i].val = Nil
    \/ \E n \in 1..Len(tablesList) :
          \/ tablesList[n] = Nil
          \/ \E i \in 1..Len(h[tablesList[n]].es) :
                LET t == h[tablesList[n]].es[i].val IN
                \/ t = Nil
                \/ h[t].un = Nil
                \/ \E j \in 1..Len(h[h[t].un].es) :
                      \/ h[h[t].un].es[j].val = Nil
                      \/ h[t].Alias \notin dstAliases(h, dst)

\* the pairs <<table alias, obligation alias>> set to true by the pass
collectUnauthorized(h, tablesList) ==
    UNION {UNION {{<<h[h[tablesList[n]].es[i].val].Alias,
                     h[h[h[h[tablesList[n]].es[i].val].un].es[j].val].Alias>> :
                       j \in 1..Len(h[h[h[tablesList[n]].es[i].val].un].es)} :
                  i \in 1..Len(h[tablesList[n]].es)} :
           n \in 1..Len(tablesList)}

\* where a range over the obligation map continues after the element with
\* key cur was visited: deleting the visited element ends the range
nextIndex(es, cur) ==
    IF IndexOf(es, cur) = 0 THEN Len(es) + 1 ELSE IndexOf(es, cur) + 1

RECURSIVE unionObligations(_, _, _, _)
RECURSIVE unionTables(_, _, _, _)

\* the inner loop of the second pass of the union: t is a descriptor of dst
unionObligations(h, t, j, seen) ==
    LET es == h[h[t].un].es IN
    IF j > Len(es) THEN [st |-> "ok", h |-> h]
    ELSE IF es[j].val = Nil THEN [st |-> "panic", h |-> h]
    ELSE LET a == h[es[j].val].Alias
             h1 == IF <<h[t].Alias, a>> \notin seen
                   THEN MapDelete(h, h[t].un, a) ELSE h
         IN unionObligations(h1, t, nextIndex(h1[h1[t].un].es, es[j].key),
                             seen)

unionTables(h, dst, i, seen) ==
    IF i > Len(h[dst].es) THEN [st |-> "ok", h |-> h]
    ELSE LET t == h[dst].es[i].val IN
         IF h[t].un = Nil THEN [st |-> "panic", h |-> h]
         ELSE The({IF r.st # "ok" THEN r
                   ELSE unionTables(r.h, dst, i + 1, seen) :
                   r \in {unionObligations(h, t, 1, seen)}})

\* a variant of the union that removes nothing from dst
UpdateUnauthorizedTablesKeepAll(h, dst, tablesList) ==
    [st |-> IF collectPanics(h, dst, tablesList) THEN "panic" ELSE "ok",
     h |-> h]

UpdateUnauthorizedTablesByUnion(h, dst, tablesList) ==
    IF collectPanics(h, dst, tablesList) THEN [st |-> "panic", h |-> h]
    ELSE unionTables(h, dst, 1, collectUnauthorized(h, tablesList))

RECURSIVE intersectionObligations(_, _, _, _)
RECURSIVE intersectionTables(_, _, _, _)

\* the inner loop of the second pass of the intersection: the first
\* obligation found in the collected set is deleted, then the loop breaks
intersectionObligations(h, t, j, seen) ==
    LET es == h[h[t].un].es IN
    IF j > Len(es) THEN [st |-> "ok", h |-> h]
    ELSE IF es[j].val = Nil THEN [st |-> "panic", h |-> h]
    ELSE LET a == h[es[j].val].Alias IN
         IF <<h[t].Alias, a>> \in seen
         THEN [st |-> "ok", h |-> MapDelete(h, h[t].un, a)]
         ELSE intersectionObligations(h, t, j + 1, seen)

intersectionTables(h, dst, i, seen) ==
    IF i > Len(h[dst].es) THEN [st |-> "ok", h |-> h]
    ELSE LET t == h[dst].es[i].val IN
         IF h[t].un = Nil THEN [st |-> "panic", h |-> h]
         ELSE The({IF r.st # "ok" THEN r
                   ELSE intersectionTables(r.h, dst, i + 1, seen) :
                   r \in {intersectionObligations(h, t, 1, seen)}})

UpdateUnauthorizedTablesByIntersection(h, dst, tablesList) ==
    IF collectPanics(h, dst, tablesList) THEN [st |-> "panic", h |-> h]
    ELSE intersectionTables(h, dst, 1, collectUnauthorized(h, tablesList))

(***************************************************************************)
(* AuthorizationResult.  A call ends with st = "ok" and a result, with a   *)
(* Go error (st = "err", msg), with a panic or with a stack overflow; h is *)
(* the heap the call leaves behind.  userInfo is [Role, ID]: the           *)
(* identifiers role and id of authorization.go are its two fields.         *)
(***************************************************************************)
NoTargetList == [isNil |-> TRUE, items |-> <<>>]

Res(auth, tables, tl, h) ==
    [st |-> "ok", msg |-> "", Authorized |-> auth, Tables |-> tables,
     TargetList |-> tl, h |-> h]

Bad(st, msg, h) ==
    [st |-> st, msg |-> msg, Authorized |-> FALSE, Tables |-> Nil,
     TargetList |-> NoTargetList, h |-> h]

\* the fall-through return of AuthorizeNode with Authorized set to true
defaultResultAuthorized(h, tables) == Res(TRUE, tables, NoTargetList, h)

\* the fall-through return of AuthorizeNode (lines 89-92)
defaultResult(h, tables) == Res(FALSE, tables, NoTargetList, h)

\* getStringValueFromNode on a field of a ColumnRef: a String node gives
\* its value, the A_Star node "*" gives the empty string
getStringValueFromNode(field) == IF field = "*" THEN "" ELSE field

\* strconv.Itoa and fmt.Sprintf("%d"): the decimal digits of n >= 0
RECURSIVE Itoa(_)
Itoa(n) ==
    IF n < 10
    THEN <<"0", "1", "2", "3", "4", "5", "6", "7", "8", "9">>[n + 1]
    ELSE Itoa(n \div 10) \o Itoa(n % 10)

RECURSIVE joinFields(_, _)

\* lines 693-699, strings.Join(parts, "."): parts holds the fields of the
\* ColumnRef that are String nodes (the A_Star "*" is left out)
joinFields(parts, i) ==
    IF Len(parts) = 0 THEN ""
    ELSE IF i = Len(parts) THEN parts[i]
    ELSE parts[i] \o "." \o joinFields(parts, i + 1)

\* getStringValueFromNode on an item of a List: an Integer node is
\* printed, a String node gives Sval, a Float node Fval, a ColumnRef its
\* fields joined by "."; an A_Const (and anything else) gives the empty
\* string
itemStringValue(item) ==
    CASE item.t = "Integer" -> Itoa(item.ival)
      [] item.t = "String" -> item.sval
      [] item.t = "Float" -> item.fval
      [] item.t = "ColumnRef" ->
             joinFields(SelectSeq(item.fields, LAMBDA f : f # "*"), 1)
      [] OTHER -> ""

IntegerNode(i) == [t |-> "Integer", ival |-> i]

StringNode(sval) == [t |-> "String", sval |-> sval]

FloatNode(fval) == [t |-> "Float", fval |-> fval]

extractColumnRefAndConst(expr) ==
    IF expr.l.t = "Nil" \/ expr.r.t = "Nil"
    THEN [columnRef |-> NilNode, aConst |-> NilNode]
    ELSE IF expr.l.t = "ColumnRef" /\ expr.r.t = "AConst"
    THEN [columnRef |-> expr.l, aConst |-> expr.r]
    ELSE IF expr.l.t = "AConst" /\ expr.r.t = "ColumnRef"
    THEN [columnRef |-> expr.r, aConst |-> expr.l]
    ELSE [columnRef |-> NilNode, aConst |-> NilNode]

wantOperator(neg) == IF neg THEN "<>" ELSE "="

\* the condition of lines 502-504 with the qualifier of the column
\* reference compared with table.Name instead of table.Alias
matchesOpByName(h, t, ua, columnRef, aConst, userInfo) ==
    LET fields == columnRef.fields IN
    IF Len(fields) = 0 THEN "panic"
    ELSE IF getStringValueFromNode(fields[1]) # h[t].Name THEN "false"
    ELSE IF Len(fields) < 2 THEN "panic"
    ELSE LET g == getAliasOfColumn(h, ua,
                     getAuthorizationColumn(h[t].Name, userInfo.Role))
         IN IF g.st # "ok" THEN g.st
            ELSE IF getStringValueFromNode(fields[2]) # g.v THEN "false"
            ELSE IF aConst.kind # "int" THEN "panic"
            ELSE IF aConst.ival = userInfo.ID THEN "true" ELSE "false"

\* the condition of lines 502-504, evaluated left to right: "true",
\* "false", or the way its evaluation fails.  t is a descriptor of the
\* copied scope, ua one of its obligations.  Line 501 takes the
\* authorization column of table.Name and line 503 uses it.
matchesOp(h, t, ua, columnRef, aConst, userInfo) ==
    LET fields == columnRef.fields IN
    IF Len(fields) = 0 THEN "panic"
    ELSE IF getStringValueFromNode(fields[1]) # h[t].Alias THEN "false"
    ELSE IF Len(fields) < 2 THEN "panic"
    ELSE LET g == getAliasOfColumn(h, ua,
                     getAuthorizationColumn(h[t].Name, userInfo.Role))
         IN IF g.st # "ok" THEN g.st
            ELSE IF getStringValueFromNode(fields[2]) # g.v THEN "false"
            ELSE IF aConst.kind # "int" THEN "panic"
            ELSE IF aConst.ival = userInfo.ID THEN "true" ELSE "false"

\* the condition of lines 552-555; line 552 takes the authorization column
\* of unauthorizedTable.Name
matchesIn(h, t, ua, columnRef, item, userInfo) ==
    LET fields == columnRef.fields IN
    IF ua = Nil THEN "panic"
    ELSE IF Len(fields) = 0 THEN "panic"
    ELSE IF getStringValueFromNode(fields[1]) # h[t].Alias THEN "false"
    ELSE IF Len(fields) < 2 THEN "panic"
    ELSE LET g == getAliasOfColumn(h, ua,
                     getAuthorizationColumn(h[ua].Name, userInfo.Role))
         IN IF g.st # "ok" THEN g.st
            ELSE IF getStringValueFromNode(fields[2]) # g.v THEN "false"
            ELSE IF itemStringValue(item) = Itoa(userInfo.ID)
                 THEN "true" ELSE "false"

matches(h, t, ua, columnRef, lit, userInfo, kind) ==
    IF kind = "OP" THEN matchesOp(h, t, ua, columnRef, lit, userInfo)
    ELSE matchesIn(h, t, ua, columnRef, lit, userInfo)

RECURSIVE clearObligations(_, _, _, _, _, _, _)
RECURSIVE clearTables(_, _, _, _, _, _, _)

\* the loop over table.UnAuthorizedTables of lines 500-509 and 551-560:
\* the first matching obligation is deleted, then the loop breaks
clearObligations(h, t, j, columnRef, lit, userInfo, kind) ==
    LET es == h[h[t].un].es IN
    IF j > Len(es) THEN [st |-> "ok", h |-> h]
    ELSE The({IF c = "true"
              THEN [st |-> "ok", h |-> MapDelete(h, h[t].un, es[j].key)]
              ELSE IF c = "false"
              THEN clearObligations(h, t, j + 1, columnRef, lit, userInfo,
                                    kind)
              ELSE [st |-> c, h |-> h] :
              c \in {matches(h, t, es[j].val, columnRef, lit, userInfo,
                             kind)}})

\* the loop over resultTables of lines 499-510 and 550-561
clearTables(h, resultTables, i, columnRef, lit, userInfo, kind) ==
    IF resultTables = Nil THEN [st |-> "panic", h |-> h]
    ELSE IF i > Len(h[resultTables].es) THEN [st |-> "ok", h |-> h]
    ELSE LET t == h[resultTables].es[i].val IN
         IF t = Nil \/ h[t].un = Nil THEN [st |-> "panic", h |-> h]
         ELSE The({IF r.st # "ok" THEN r
                   ELSE clearTables(r.h, resultTables, i + 1, columnRef, lit,
                                    userInfo, kind) :
                   r \in {clearObligations(h, t, 1, columnRef, lit, userInfo,
                                           kind)}})

(***************************************************************************)
(* The node authorizer and its sub-authorizers (mutually recursive).       *)
(***************************************************************************)
RECURSIVE AuthorizeNode(_, _, _, _, _)
RECURSIVE authorizeSelectStmt(_, _, _, _, _)
RECURSIVE rowExprArgs(_, _, _, _, _, _, _)

\* the loop over the arguments of the row expression, lines 516-539; it
\* looks the alias up in the scope passed in, not in its copy
rowExprArgs(h, args, k, rexpr, tables, neg, userInfo) ==
    IF k > Len(args) THEN [st |-> "ok", h |-> h]
    ELSE LET arg == args[k] IN
         \* the arguments that are skipped (continue)
         IF \/ arg.t # "ColumnRef"
            \/ Len(arg.fields) <= 1 \/ arg.fields[1] = "*"
            \/ arg.fields[2] = "*"
            \/ (tables # Nil /\ ~MapHas(h, tables, arg.fields[1]))
         THEN rowExprArgs(h, args, k + 1, rexpr, tables, neg, userInfo)
         ELSE IF tables = Nil THEN [st |-> "panic", h |-> h]
         ELSE LET table == MapGet(h, tables, arg.fields[1]) IN
              IF table = Nil THEN [st |-> "panic", h |-> h]
              ELSE The({
                   IF g.st # "ok" THEN [st |-> g.st, h |-> h]
                   ELSE The({
                        \* the error is dropped, the nil result is read
                        IF authResult.st = "err"
                        THEN [st |-> "panic", h |-> authResult.h]
                        ELSE IF authResult.st \notin {"ok", "skip"}
                        THEN [st |-> authResult.st, h |-> authResult.h]
                        ELSE IF authResult.st = "ok" /\ authResult.Authorized
                        THEN IF authResult.h[table].un = Nil
                             THEN [st |-> "panic", h |-> authResult.h]
                             ELSE [st |-> "ok",
                                   h |-> MapDelete(authResult.h,
                                             authResult.h[table].un,
                                             authResult.h[table].Alias)]
                        ELSE rowExprArgs(authResult.h, args, k + 1, rexpr,
                                         tables, neg, userInfo) :
                        authResult \in {
                            \* another column than the authorization column
                            \* is skipped (continue)
                            IF getAuthorizationColumn(h[table].Name,
                                                      userInfo.Role) # g.v
                            THEN [st |-> "skip", h |-> h]
                            ELSE AuthorizeNode(
                                     NewOrderedMapWithElements(
                                         h, h[table].Alias, table).h,
                                     rexpr,
                                     NewOrderedMapWithElements(
                                         h, h[table].Alias, table).a,
                                     neg, userInfo)}}) :
                   g \in {getAliasOfColumn(h, table, arg.fields[2])}})

RECURSIVE allResolvedFrom(_, _, _, _)

\* lines 565-568: authorized && Len() == 0, with Go's short-circuit
allResolvedFrom(h, resultTables, i, authorized) ==
    IF i > Len(h[resultTables].es) THEN [st |-> "ok", v |-> authorized]
    ELSE IF ~authorized
    THEN allResolvedFrom(h, resultTables, i + 1, FALSE)
    ELSE LET t == h[resultTables].es[i].val IN
         IF t = Nil \/ h[t].un = Nil THEN [st |-> "panic", v |-> FALSE]
         ELSE allResolvedFrom(h, resultTables, i + 1, MapLen(h, h[t].un) = 0)

\* case AEXPR_OP, lines 491-540
aExprOp(h, expr, resultTables, tables, neg, userInfo) ==
    The({IF r1.st # "ok" THEN r1
         ELSE IF expr.l.t = "RowExpr"
         THEN rowExprArgs(r1.h, expr.l.args, 1, expr.r, tables, neg,
                          userInfo)
         ELSE r1 :
         r1 \in {LET x == extractColumnRefAndConst(expr) IN
                 IF x.columnRef.t # "Nil" /\ x.aConst.t # "Nil"
                 THEN clearTables(h, resultTables, 1, x.columnRef, x.aConst,
                                  userInfo, "OP")
                 ELSE [st |-> "ok", h |-> h]}})

\* case AEXPR_IN, lines 541-561
aExprIn(h, expr, resultTables, userInfo) ==
    IF expr.l.t # "ColumnRef" \/ expr.r.t # "List"
    THEN [st |-> "ok", h |-> h]
    ELSE IF Len(expr.r.items) # 1 THEN [st |-> "ok", h |-> h]
    ELSE clearTables(h, resultTables, 1, expr.l, expr.r.items[1], userInfo,
                     "IN")

authorizeAExpr(h, expr, tables, neg, userInfo) ==
    The({
    IF dc.st # "ok" THEN Bad(dc.st, "", dc.h)
    ELSE IF expr.l.t = "Nil" \/ expr.r.t = "Nil"
    THEN Res(FALSE, dc.a, NoTargetList, dc.h)
    ELSE IF expr.name # wantOperator(neg)
    THEN Res(FALSE, dc.a, NoTargetList, dc.h)
    ELSE The({
         IF r.st # "ok" THEN Bad(r.st, "", r.h)
         ELSE IF dc.a = Nil THEN Bad("panic", "", r.h)
         ELSE The({IF a.st # "ok" THEN Bad(a.st, "", r.h)
                   ELSE Res(a.v, dc.a, NoTargetList, r.h) :
                   a \in {allResolvedFrom(r.h, dc.a, 1, TRUE)}}) :
         r \in {CASE expr.kind = "OP" ->
                       aExprOp(dc.h, expr, dc.a, tables, neg, userInfo)
                 [] expr.kind = "IN" ->
                       aExprIn(dc.h, expr, dc.a, userInfo)
                 [] OTHER -> [st |-> "ok", h |-> dc.h]}}) :
    dc \in {DeepCopy(h, tables)}})

RECURSIVE boolArgs(_, _, _, _, _, _, _)

\* the loops of lines 417-423 and 430-436: every argument is authorized
\* against the scope passed in; list collects the result scopes
boolArgs(h, args, i, tables, neg, userInfo, list) ==
    IF i > Len(args) THEN [st |-> "ok", msg |-> "", h |-> h, list |-> list]
    ELSE The({IF authResult.st # "ok"
              THEN [st |-> authResult.st, msg |-> authResult.msg,
                    h |-> authResult.h, list |-> list]
              ELSE boolArgs(authResult.h, args, i + 1, tables, neg, userInfo,
                            Append(list, authResult.Tables)) :
              authResult \in {AuthorizeNode(h, args[i], tables, neg,
                                            userInfo)}})

RECURSIVE anyObligationFrom(_, _, _)

\* lines 452-457: the first descriptor with obligations ends the loop
anyObligationFrom(h, resultTables, i) ==
    IF i > Len(h[resultTables].es) THEN [st |-> "ok", v |-> FALSE]
    ELSE LET t == h[resultTables].es[i].val IN
         IF t = Nil \/ h[t].un = Nil THEN [st |-> "panic", v |-> FALSE]
         ELSE IF MapLen(h, h[t].un) # 0 THEN [st |-> "ok", v |-> TRUE]
         ELSE anyObligationFrom(h, resultTables, i + 1)

\* lines 452-459 for a result with the verdict auth so far
boolResult(h, resultTables, auth) ==
    IF resultTables = Nil THEN Bad("panic", "", h)
    ELSE The({IF a.st # "ok" THEN Bad(a.st, "", h)
              ELSE Res(auth /\ ~a.v, resultTables, NoTargetList, h) :
              a \in {anyObligationFrom(h, resultTables, 1)}})

\* the intersection applied to the first scope of the list instead of dst
combineAndIntoList(h, dst, tablesList) ==
    IF tablesList = <<>> THEN [st |-> "ok", h |-> h]
    ELSE UpdateUnauthorizedTablesByIntersection(h, tablesList[1], tablesList)

\* line 424 and line 437: the combinator applied to the collected scopes
combineOr(h, dst, tablesList) ==
    UpdateUnauthorizedTablesByUnion(h, dst, tablesList)

combineAnd(h, dst, tablesList) ==
    UpdateUnauthorizedTablesByIntersection(h, dst, tablesList)

authorizeBoolExpr(h, boolExpr, tables, neg, userInfo) ==
    IF boolExpr = NilBoolExpr
    THEN \* lines 400-405; tables.Len() dereferences a nil scope
         IF tables = Nil THEN Bad("panic", "", h)
         ELSE Res(MapLen(h, tables) = 0, tables, NoTargetList, h)
    ELSE The({
    IF dc.st # "ok" THEN Bad(dc.st, "", dc.h)
    ELSE IF boolExpr.op \in {"OR", "AND"} THEN
        The({
        IF as.st # "ok" THEN Bad(as.st, as.msg, as.h)
        ELSE The({IF u.st # "ok" THEN Bad(u.st, "", u.h)
                  ELSE boolResult(u.h, dc.a, TRUE) :
                  u \in {IF boolExpr.op = "OR"
                         THEN combineOr(as.h, dc.a, as.list)
                         ELSE combineAnd(as.h, dc.a, as.list)}}) :
        as \in {boolArgs(dc.h, boolExpr.args, 1, tables, neg, userInfo,
                         <<>>)}})
    ELSE IF boolExpr.op = "NOT" THEN
        IF Len(boolExpr.args) # 1
        THEN Bad("err", "NOT expression must have exactly one argument",
                 dc.h)
        ELSE The({IF authResult.st # "ok" THEN authResult
                  ELSE boolResult(authResult.h, dc.a,
                                  ~authResult.Authorized) :
                  authResult \in {AuthorizeNode(dc.h, boolExpr.args[1],
                                                tables, ~neg, userInfo)}})
    ELSE boolResult(dc.h, dc.a, TRUE) :
    dc \in {DeepCopy(h, tables)}})

authorizeSubLink(h, link, tables, neg, userInfo) ==
    AuthorizeNode(h, link.sub, tables, FALSE, userInfo)

(***************************************************************************)
(* Virtual tables: table_info.go createColumnFromSourceTable and its two   *)
(* callers, authorization.go createVirtualTableForAlias.  cols is the      *)
(* Columns map of the virtual table being built.                           *)
(***************************************************************************)
ColIndex(cols, alias) ==
    IF \E i \in 1..Len(cols) : cols[i].alias = alias
    THEN CHOOSE i \in 1..Len(cols) : cols[i].alias = alias
    ELSE 0

ColSet(cols, alias, name, src) ==
    IF ColIndex(cols, alias) = 0 THEN Append(cols, Col(alias, name, src))
    ELSE [cols EXCEPT ![ColIndex(cols, alias)] = Col(alias, name, src)]

\* newColAlias is [isNil, v]
createColumnFromSourceTable(h, cols, colName, sourceTable, newColAlias) ==
    IF sourceTable = Nil THEN [st |-> "panic", cols |-> cols]
    ELSE IF ~h[sourceTable].hasColumns THEN [st |-> "panic", cols |-> cols]
    ELSE IF ColIndex(h[sourceTable].Columns, colName) = 0
    THEN [st |-> "ok", cols |-> cols]
    ELSE [st |-> "ok",
          cols |-> ColSet(cols,
                          IF newColAlias.isNil THEN colName
                          ELSE newColAlias.v,
                          colName, sourceTable)]

RECURSIVE createAllColumnFrom(_, _, _, _, _, _)

\* the loop of createAllColumnFromSourceTable; curIndex counts from 0
createAllColumnFrom(h, cols, sourceTable, newColAliases, i, curIndex) ==
    IF i > Len(h[sourceTable].Columns) THEN [st |-> "ok", cols |-> cols]
    ELSE LET has == curIndex < Len(newColAliases) IN
         The({IF r.st # "ok" THEN r
              ELSE createAllColumnFrom(h, r.cols, sourceTable, newColAliases,
                                       i + 1,
                                       IF has THEN curIndex + 1
                                       ELSE curIndex) :
              r \in {createColumnFromSourceTable(
                         h, cols, h[sourceTable].Columns[i].alias,
                         sourceTable,
                         IF has THEN [isNil |-> FALSE,
                                      v |-> newColAliases[curIndex + 1]]
                         ELSE [isNil |-> TRUE, v |-> ""])}})

createAllColumnFromSourceTable(h, cols, sourceTable, newColAliases) ==
    IF sourceTable = Nil THEN [st |-> "ok", cols |-> cols]
    ELSE IF ~h[sourceTable].hasColumns THEN [st |-> "ok", cols |-> cols]
    ELSE createAllColumnFrom(h, cols, sourceTable, newColAliases, 1, 0)

Min(a, b) == IF a < b THEN a ELSE b

RECURSIVE createAllColumnsFromList(_, _, _, _, _, _)

\* the loop of createAllColumnsFromSourceTableList over the scope entries
createAllColumnsFromList(h, cols, es, newColAliases, i, curIndex) ==
    IF i > Len(es) THEN [st |-> "ok", cols |-> cols]
    ELSE LET table == es[i].val
             named == curIndex < Len(newColAliases)
             endIndex == IF table = Nil THEN curIndex
                         ELSE Min(curIndex + Len(h[table].Columns),
                                  Len(newColAliases))
         IN
         IF table = Nil \/ ~h[table].hasColumns
         THEN createAllColumnsFromList(h, cols, es, newColAliases, i + 1,
                                       curIndex)
         ELSE The({IF r.st # "ok" THEN r
                   ELSE createAllColumnsFromList(
                            h, r.cols, es, newColAliases, i + 1,
                            IF named THEN endIndex ELSE curIndex) :
                   r \in {createAllColumnFromSourceTable(
                              h, cols, table,
                              IF named
                              THEN SubSeq(newColAliases, curIndex + 1,
                                          endIndex)
                              ELSE <<>>)}})

createAllColumnsFromSourceTableList(h, cols, es, newColAliases) ==
    createAllColumnsFromList(h, cols, es, newColAliases, 1, 0)

RECURSIVE allColCntFrom(_, _, _)

\* lines 598-601: the sum of table.Columns.Len() over curTables
allColCntFrom(h, es, i) ==
    IF i > Len(es) THEN [st |-> "ok", v |-> 0]
    ELSE IF es[i].val = Nil THEN [st |-> "panic", v |-> 0]
    ELSE IF ~h[es[i].val].hasColumns THEN [st |-> "panic", v |-> 0]
    ELSE The({IF r.st # "ok" THEN r
              ELSE [st |-> "ok", v |-> Len(h[es[i].val].Columns) + r.v] :
              r \in {allColCntFrom(h, es, i + 1)}})

\* one target of the loop of lines 605-660: the columns it adds and the
\* index of the next column alias, [st, cols, curIndex]
virtualTarget(h, cols, resTarget, curTables, colAliases, curIndex, allColCnt) ==
    LET skip == [st |-> "ok", cols |-> cols, curIndex |-> curIndex]
        panic == [st |-> "panic", cols |-> cols, curIndex |-> curIndex]
        added(r, nextIdx) ==
            [st |-> r.st, cols |-> r.cols, curIndex |-> nextIdx]
    IN
    IF resTarget.t # "ResTarget" THEN skip
    ELSE IF resTarget.val.t # "ColumnRef" THEN skip
    ELSE IF Len(resTarget.val.fields) = 0 THEN skip
    ELSE LET fields == resTarget.val.fields IN
    IF fields[1] = "*" THEN
       LET nextIdx == Min(curIndex + allColCnt, Len(colAliases)) IN
       added(createAllColumnsFromSourceTableList(
                 h, cols, h[curTables].es,
                 SubSeq(colAliases, curIndex + 1, nextIdx)),
             nextIdx)
    ELSE IF Len(fields) = 2 /\ fields[2] = "*" THEN
       IF ~MapHas(h, curTables, fields[1]) THEN skip
       ELSE LET selectedTable == MapGet(h, curTables, fields[1]) IN
            IF selectedTable = Nil THEN panic
            ELSE IF ~h[selectedTable].hasColumns THEN panic
            ELSE LET nextIdx ==
                         Min(curIndex + Len(h[selectedTable].Columns),
                             Len(colAliases))
                 IN added(createAllColumnFromSourceTable(
                              h, cols, selectedTable,
                              SubSeq(colAliases, curIndex + 1, nextIdx)),
                          nextIdx)
    ELSE IF Len(fields) < 2 THEN panic
    ELSE IF ~MapHas(h, curTables, fields[1]) THEN skip
    ELSE LET selectedColName == getStringValueFromNode(fields[2])
             selectedTable == MapGet(h, curTables, fields[1])
             named == IF resTarget.name # "" THEN resTarget.name
                      ELSE selectedColName
             has == /\ curIndex < Len(colAliases)
                    /\ colAliases[curIndex + 1] # ""
             colAlias == IF has THEN colAliases[curIndex + 1] ELSE named
         IN added(createColumnFromSourceTable(
                      h, cols, selectedColName, selectedTable,
                      [isNil |-> FALSE, v |-> colAlias]),
                  IF has THEN curIndex + 1 ELSE curIndex)

RECURSIVE virtualColumns(_, _, _, _, _, _, _, _)

\* the loop over targetList of lines 605-660; curIndex counts from 0
virtualColumns(h, cols, targetList, k, curTables, colAliases, curIndex, allColCnt) ==
    IF k > Len(targetList) THEN [st |-> "ok", cols |-> cols]
    ELSE The({IF s.st # "ok" THEN [st |-> s.st, cols |-> s.cols]
              ELSE virtualColumns(h, s.cols, targetList, k + 1, curTables,
                                  colAliases, s.curIndex, allColCnt) :
              s \in {virtualTarget(h, cols, targetList[k], curTables,
                                   colAliases, curIndex, allColCnt)}})

RECURSIVE virtualObligationsPanic(_, _, _)

\* lines 668-674: the virtual table is built with a nil UnAuthorizedTables
\* map, so the first obligation found in curTables is set on a nil map
virtualObligationsPanic(h, es, i) ==
    IF i > Len(es) THEN FALSE
    ELSE IF es[i].val = Nil THEN TRUE
    ELSE IF h[es[i].val].un = Nil THEN TRUE
    ELSE IF MapLen(h, h[es[i].val].un) # 0 THEN TRUE
    ELSE virtualObligationsPanic(h, es, i + 1)

\* the virtual descriptor with the columns cols, alone in a new scope
virtualScope(h, alias, cols) ==
    NewOrderedMapWithElements(
        Append(h, TblObj(alias, alias, FALSE, TRUE, cols, Nil)),
        alias, Len(h) + 1)

\* alias is the alias name, colnames its column names, targetList is
\* [isNil, items]
createVirtualTableForAlias(h, alias, colnames, targetList, curTables) ==
    IF curTables = Nil THEN Fail("panic", h)
    ELSE The({
         IF cnt.st # "ok" THEN Fail(cnt.st, h)
         ELSE The({
              IF c.st # "ok" THEN Fail(c.st, h)
              ELSE IF virtualObligationsPanic(h, h[curTables].es, 1)
              THEN Fail("panic", h)
              ELSE The({Ok(m.h, m.a) :
                        m \in {virtualScope(h, alias, c.cols)}}) :
              c \in {IF ~targetList.isNil
                     THEN virtualColumns(h, <<>>, targetList.items, 1,
                                         curTables, colnames, 0, cnt.v)
                     ELSE createAllColumnsFromSourceTableList(
                              h, <<>>, h[curTables].es, colnames)}}) :
         cnt \in {allColCntFrom(h, h[curTables].es, 1)}})

(***************************************************************************)
(* FROM items, WITH, joins and the SELECT statement.                       *)
(***************************************************************************)
WithClause(ctes) == [t |-> "WithClause", ctes |-> ctes]

FromExpr(fromlist, quals) ==
    [t |-> "FromExpr", fromlist |-> fromlist, quals |-> quals]

Acc(st, msg, h, tables, auth) ==
    [st |-> st, msg |-> msg, h |-> h, Tables |-> tables, Authorized |-> auth]

authorizeRangeSubselect(h, node, tables, neg, userInfo) ==
    IF node.lateral THEN Bad("err", "lateral is not supported", h)
    ELSE The({
         IF authResult.st # "ok" THEN authResult
         ELSE IF node.alias = "" THEN authResult
         ELSE The({IF v.st # "ok" THEN Bad(v.st, "", v.h)
                   ELSE Res(authResult.Authorized, v.a, NoTargetList, v.h) :
                   v \in {createVirtualTableForAlias(
                              authResult.h, node.alias, node.colnames,
                              authResult.TargetList, authResult.Tables)}}) :
         authResult \in {AuthorizeNode(h, node.sub, tables, FALSE,
                                       userInfo)}})

RECURSIVE cteLoop(_, _, _, _, _, _, _, _)

\* lines 106-113 and 387-394: MergeMaps(cteResult.Tables, result.Tables)
cteLoop(h, ctes, i, tables, neg, userInfo, resultTables, auth) ==
    IF i > Len(ctes) THEN Acc("ok", "", h, resultTables, auth)
    ELSE The({
         IF cteResult.st # "ok"
         THEN Acc(cteResult.st, cteResult.msg, cteResult.h, Nil, FALSE)
         ELSE The({IF m.st # "ok" THEN Acc(m.st, "", m.h, Nil, FALSE)
                   ELSE cteLoop(m.h, ctes, i + 1, tables, neg, userInfo, m.a,
                                auth /\ cteResult.Authorized) :
                   m \in {MergeMaps(cteResult.h, cteResult.Tables,
                                    resultTables)}}) :
         cteResult \in {AuthorizeNode(h, ctes[i], tables, neg, userInfo)}})

authorizeWithClause(h, clause, tables, neg, userInfo) ==
    The({IF r.st # "ok" THEN Bad(r.st, r.msg, r.h)
         ELSE Res(r.Authorized, r.Tables, NoTargetList, r.h) :
         r \in {cteLoop(NewOrderedMap(h).h, clause.ctes, 1, tables, neg,
                        userInfo, NewOrderedMap(h).a, TRUE)}})

RECURSIVE fromLoop(_, _, _, _, _, _, _, _)

\* lines 165-172 (and 208-214, where the verdicts are not combined):
\* MergeMaps(result.Tables, fromResult.Tables)
fromLoop(h, from, i, tables, neg, userInfo, resultTables, auth) ==
    IF i > Len(from) THEN Acc("ok", "", h, resultTables, auth)
    ELSE The({
         IF fromResult.st # "ok"
         THEN Acc(fromResult.st, fromResult.msg, fromResult.h, Nil, FALSE)
         ELSE The({IF m.st # "ok" THEN Acc(m.st, "", m.h, Nil, FALSE)
                   ELSE fromLoop(m.h, from, i + 1, tables, neg, userInfo,
                                 m.a, auth /\ fromResult.Authorized) :
                   m \in {MergeMaps(fromResult.h, resultTables,
                                    fromResult.Tables)}}) :
         fromResult \in {AuthorizeNode(h, from[i], tables, neg, userInfo)}})

authorizeFromExpr(h, node, tables, neg, userInfo) ==
    The({IF r.st # "ok" THEN Bad(r.st, r.msg, r.h)
         ELSE AuthorizeNode(r.h, node.quals, r.Tables, neg, userInfo) :
         r \in {fromLoop(h, node.fromlist, 1, tables, neg, userInfo, Nil,
                         TRUE)}})

RECURSIVE resetObligations(_, _, _)

\* lines 288-290 and 293-295: every descriptor of the scope gets a new,
\* empty obligation map
resetObligations(h, es, i) ==
    IF i > Len(es) THEN [st |-> "ok", h |-> h]
    ELSE IF es[i].val = Nil THEN [st |-> "panic", h |-> h]
    ELSE resetObligations([NewOrderedMap(h).h EXCEPT
                               ![es[i].val].un = NewOrderedMap(h).a],
                          es, i + 1)

\* the switch on the join type, lines 280-301
joinTypeUpdate(h, jt, lTables, rTables) ==
    CASE jt \in {"INNER", "UNIQUE_INNER"} ->
           [msg |-> ""] @@ UpdateUnauthorizedTablesByIntersection(
                               h, lTables, <<rTables>>)
      [] jt = "LEFT" ->
           IF rTables = Nil THEN [st |-> "panic", msg |-> "", h |-> h]
           ELSE [msg |-> ""] @@ resetObligations(h, h[rTables].es, 1)
      [] jt = "RIGHT" ->
           IF lTables = Nil THEN [st |-> "panic", msg |-> "", h |-> h]
           ELSE [msg |-> ""] @@ resetObligations(h, h[lTables].es, 1)
      [] jt \in {"FULL", "UNIQUE_OUTER"} ->
           [st |-> "ok", msg |-> "", h |-> h]
      [] OTHER -> [st |-> "err",
                   msg |-> "unsupported join type: JOIN_" \o jt, h |-> h]

\* the result r of a join with its Tables wrapped in a virtual table when
\* the join has an alias (lines 251-253, 262-264, 308-311)
joinScope(joinExpr, r) ==
    IF joinExpr.alias = "" THEN r
    ELSE The({IF v.st # "ok" THEN Bad(v.st, "", v.h)
              ELSE [r EXCEPT !.Tables = v.a, !.h = v.h] :
              v \in {createVirtualTableForAlias(r.h, joinExpr.alias, <<>>,
                                                NoTargetList, r.Tables)}})

\* lines 246-314, after both sides and the merged scope m2 are known: the
\* result before the alias of the join is applied
joinVerdict(joinExpr, lResult, rResult, m2, neg, userInfo) ==
    IF lResult.Authorized /\ rResult.Authorized
    THEN Res(TRUE, m2.a, NoTargetList, m2.h)
    ELSE IF joinExpr.using \/ joinExpr.natural
    THEN Res(userInfo.Role = "admin", m2.a, NoTargetList, m2.h)
    ELSE The({IF u.st # "ok" THEN Bad(u.st, u.msg, u.h)
              ELSE AuthorizeNode(u.h, joinExpr.quals, m2.a, neg, userInfo) :
              u \in {joinTypeUpdate(m2.h, joinExpr.jt, lResult.Tables,
                                    rResult.Tables)}})

authorizeJoinExpr(h, joinExpr, tables, neg, userInfo) ==
    IF joinExpr.larg.t = "Nil" THEN Bad("err", "left side of join is nil", h)
    ELSE IF joinExpr.rarg.t = "Nil"
    THEN Bad("err", "right side of join is nil", h)
    ELSE The({
    IF lResult.st # "ok" THEN lResult
    ELSE The({
         IF rResult.st # "ok" THEN rResult
         ELSE The({
              IF m1.st # "ok" THEN Bad(m1.st, "", m1.h)
              ELSE The({
                   IF m2.st # "ok" THEN Bad(m2.st, "", m2.h)
                   ELSE The({IF q.st # "ok" THEN q
                             ELSE joinScope(joinExpr, q) :
                             q \in {joinVerdict(joinExpr, lResult, rResult,
                                                m2, neg, userInfo)}}) :
                   m2 \in {MergeMaps(m1.h, m1.a, rResult.Tables)}}) :
              m1 \in {MergeMaps(rResult.h, Nil, lResult.Tables)}}) :
         rResult \in {AuthorizeNode(lResult.h, joinExpr.rarg, tables, neg,
                                    userInfo)}}) :
    lResult \in {AuthorizeNode(h, joinExpr.larg, tables, neg, userInfo)}})

\* authorizeRangeVar: the descriptor is built without an obligation map;
\* AuthorizeNode has no case that calls it
authorizeRangeVar(h, node, tables, userInfo) ==
    LET t == Len(h) + 1
        names == GetColumns(node.rel)
        cols == [i \in 1..Len(names) |-> Col(names[i], names[i], t)]
        alias == IF node.alias # "" THEN node.alias ELSE node.rel
        h1 == Append(h, TblObj(node.rel, alias, TRUE, TRUE, cols, Nil))
    IN The({IF m.st # "ok" THEN Bad(m.st, "", m.h)
            ELSE Res(isPublicTable(node.rel), m.a, NoTargetList, m.h) :
            m \in {The({MergeMaps(e.h, tables, e.a) :
                        e \in {NewOrderedMapWithElements(h1, alias, t)}})}})

\* the two set-operation branches, lines 116-156
setOperation(h, stmt, tables, neg, userInfo, resultTables) ==
    The({
    IF lResult.st # "ok" THEN lResult
    ELSE The({
         IF rResult.st # "ok" THEN rResult
         ELSE The({
              IF m.st # "ok" THEN Bad(m.st, "", m.h)
              ELSE The({
                   IF u.st # "ok" THEN Bad(u.st, "", u.h)
                   ELSE Res(IF stmt.op = "UNION"
                            THEN lResult.Authorized /\ rResult.Authorized
                            ELSE lResult.Authorized \/ rResult.Authorized,
                            resultTables,
                            IF /\ ~lResult.TargetList.isNil
                               /\ ~rResult.TargetList.isNil
                            THEN lResult.TargetList ELSE NoTargetList,
                            u.h) :
                   u \in {IF stmt.op = "UNION"
                          THEN UpdateUnauthorizedTablesByUnion(
                                   m.h, resultTables, <<m.a>>)
                          ELSE UpdateUnauthorizedTablesByIntersection(
                                   m.h, resultTables, <<m.a>>)}}) :
              m \in {MergeMaps(rResult.h, lResult.Tables,
                               rResult.Tables)}}) :
         rResult \in {authorizeSelectStmt(lResult.h, stmt.rarg, tables, neg,
                                          userInfo)}}) :
    lResult \in {authorizeSelectStmt(h, stmt.larg, tables, neg, userInfo)}})

\* a filter step in which any clause that is present authorizes
filterClauseAuthorizes(r, clause, neg, userInfo) ==
    IF r.st # "ok" THEN r
    ELSE IF r.Authorized \/ clause.t = "Nil" THEN r
    ELSE Acc("ok", "", r.h, r.Tables, TRUE)

\* lines 174-195: WHERE, then HAVING, each only while not yet authorized;
\* clause is the WHERE or the HAVING node
filterClause(r, clause, neg, userInfo) ==
    IF r.st # "ok" THEN r
    ELSE IF r.Authorized \/ clause.t = "Nil" THEN r
    ELSE The({IF c.st # "ok" THEN Acc(c.st, c.msg, c.h, Nil, FALSE)
              ELSE Acc("ok", "", c.h, c.Tables, c.Authorized) :
              c \in {AuthorizeNode(r.h, clause, r.Tables, neg, userInfo)}})

\* lines 165-202: FROM, WHERE, HAVING and the target list
selectBody(h, stmt, tables, neg, userInfo, w) ==
    The({IF b.st # "ok" THEN Bad(b.st, b.msg, b.h)
         ELSE Res(b.Authorized, b.Tables,
                  IF stmt.hasTl THEN [isNil |-> FALSE, items |-> stmt.tl]
                  ELSE NoTargetList,
                  b.h) :
         b \in {filterClause(
                    filterClause(
                        fromLoop(w.h, stmt.from, 1, tables, neg, userInfo,
                                 w.Tables, w.Authorized),
                        stmt.where, neg, userInfo),
                    stmt.having, neg, userInfo)}})

authorizeSelectStmt(h, stmt, tables, neg, userInfo) ==
    LET m == NewOrderedMap(h) IN
    IF stmt.t = "Nil" THEN Res(TRUE, m.a, NoTargetList, m.h)
    ELSE IF stmt.into THEN Res(TRUE, m.a, NoTargetList, m.h)
    ELSE The({
         IF w.st # "ok" THEN Bad(w.st, w.msg, w.h)
         ELSE IF stmt.op \in {"UNION", "INTERSECT"}
         THEN setOperation(w.h, stmt, tables, neg, userInfo, w.Tables)
         ELSE IF stmt.op = "EXCEPT"
         THEN authorizeSelectStmt(w.h, stmt.larg, tables, neg, userInfo)
         ELSE selectBody(w.h, stmt, tables, neg, userInfo, w) :
         w \in {cteLoop(m.h, stmt.ctes, 1, tables, neg, userInfo, m.a,
                        TRUE)}})

AuthorizeNode(h, node, tables, neg, userInfo) ==
    IF node.t = "Nil" THEN Bad("err", "node is nil", h)
    ELSE CASE node.t = "SelectStmt" ->
                authorizeSelectStmt(h, node, tables, neg, userInfo)
           [] node.t = "BoolExpr" ->
                authorizeBoolExpr(h, node, tables, neg, userInfo)
           [] node.t = "AExpr" ->
                authorizeAExpr(h, node, tables, neg, userInfo)
           [] node.t = "SubLink" ->
                authorizeSubLink(h, node, tables, neg, userInfo)
           [] node.t = "JoinExpr" ->
                authorizeJoinExpr(h, node, tables, neg, userInfo)
           [] node.t = "FromExpr" ->
                authorizeFromExpr(h, node, tables, neg, userInfo)
           [] node.t = "RangeSubselect" ->
                authorizeRangeSubselect(h, node, tables, neg, userInfo)
           [] node.t = "WithClause" ->
                authorizeWithClause(h, node, tables, neg, userInfo)
           [] OTHER -> defaultResult(h, tables)

(***************************************************************************)
(* Scopes handed to AuthorizeNode by a caller.  A scope is [h, tables]:    *)
(* a heap and the address of the scope map in it.  Descriptors are built   *)
(* the way authorization_test.go builds them: a database descriptor holds  *)
(* the columns of its table, each column naming the descriptor as its      *)
(* source.  The obligation map of a database descriptor is                 *)
(*   "none"   nil, as authorizeRangeVar and most test fixtures leave it,   *)
(*   "empty"  an empty map (a resolved table),                             *)
(*   "self"   the descriptor itself under its alias,                       *)
(*   "copy"   a second descriptor of the same table under the same alias,  *)
(*            itself resolved.                                             *)
(***************************************************************************)
EmptyScope == [h |-> <<MapObj(<<>>)>>, tables |-> 1]

NilScope == [h |-> <<>>, tables |-> Nil]

DbColumns(name, t) ==
    [i \in 1..Len(GetColumns(name)) |->
        Col(GetColumns(name)[i], GetColumns(name)[i], t)]

AddDb(f, name, alias, style) ==
    LET h == f.h
        t == Len(h) + 1
        d(self, un) == TblObj(name, alias, TRUE, TRUE, DbColumns(name, self),
                              un)
        h1 == CASE style = "none" -> Append(h, d(t, Nil))
                [] style = "empty" -> h \o <<d(t, t + 1), MapObj(<<>>)>>
                [] style = "self" ->
                     h \o <<d(t, t + 1),
                            MapObj(<<[key |-> alias, val |-> t]>>)>>
                [] style = "copy" ->
                     h \o <<d(t, t + 1),
                            MapObj(<<[key |-> alias, val |-> t + 2]>>),
                            d(t + 2, t + 3), MapObj(<<>>)>>
    IN [h |-> MapSet(h1, f.tables, alias, t), tables |-> f.tables]

\* the virtual descriptor of the tests: alias "subquery", obligations on
\* student and course, one column from each; with style "renamed" the
\* column taken from student.id is exposed as sid (SELECT s.id AS sid)
AddVirtual(f, style) ==
    LET h == f.h
        t == Len(h) + 1
        h1 == h \o <<TblObj("student", "student", TRUE, TRUE,
                            DbColumns("student", t), t + 1),
                     MapObj(<<>>),
                     TblObj("course", "course", TRUE, TRUE,
                            DbColumns("course", t + 2), t + 3),
                     MapObj(<<>>),
                     TblObj("subquery", "subquery", FALSE, TRUE,
                            <<Col(IF style = "renamed" THEN "sid" ELSE "id",
                                  "id", t),
                              Col("name", "name", t + 2)>>,
                            t + 5),
                     MapObj(<<[key |-> "student", val |-> t],
                              [key |-> "course", val |-> t + 2]>>)>>
    IN [h |-> MapSet(h1, f.tables, "subquery", t + 4), tables |-> f.tables]

\* a scope from a list of [name, alias, style] entries
RECURSIVE BuildScope(_, _)
BuildScope(spec, i) ==
    IF i = 0 THEN EmptyScope
    ELSE IF spec[i].name = "subquery"
    THEN AddVirtual(BuildScope(spec, i - 1), spec[i].style)
    ELSE AddDb(BuildScope(spec, i - 1), spec[i].name, spec[i].alias,
               spec[i].style)

Scope(spec) == BuildScope(spec, Len(spec))

D(name, alias, style) == [name |-> name, alias |-> alias, style |-> style]

\* what a caller can observe of a scope: its aliases in order and, per
\* alias, the table named and the aliases of the obligations left
\* ("nil" for a descriptor without obligation map)
ScopeView(h, tables) ==
    IF tables = Nil THEN <<"nil">>
    ELSE [i \in 1..Len(h[tables].es) |->
            LET t == h[tables].es[i].val IN
            [alias |-> h[tables].es[i].key,
             name |-> h[t].Name,
             isDatabase |-> h[t].IsDatabase,
             obligations |->
                 IF h[t].un = Nil THEN <<"nil">>
                 ELSE [j \in 1..Len(h[h[t].un].es) |-> h[h[t].un].es[j].key]]]

\* the aliases of a scope that still carry an obligation
Unresolved(h, tables) ==
    IF tables = Nil THEN {}
    ELSE {h[tables].es[i].key : i \in
            {j \in 1..Len(h[tables].es) :
                LET t == h[tables].es[j].val IN
                h[t].un # Nil /\ Len(h[h[t].un].es) > 0}}

(***************************************************************************)
(* Inputs.  Each is the parse tree of the SQL text given in its comment.   *)
(***************************************************************************)
Roles == {"admin", "student", "professor"}

Users == [Role : Roles, ID : Ids]

\* a.c = k
Eq(a, c, k) == AExpr("OP", "=", ColumnRef(<<a, c>>), AConst("int", k))

\* (SELECT * FROM student WHERE a.id = k), as a sublink
PinnedSubLink(a, k) ==
    SubLink(Select(<<RangeVar("student", "")>>, Eq(a, "id", k)))

\* (a.id, a.name) = (SELECT * FROM student WHERE a.id = k)
RowEq(a, k) ==
    AExpr("OP", "=", RowExpr(<<ColumnRef(<<a, "id">>),
                               ColumnRef(<<a, "name">>)>>),
          PinnedSubLink(a, k))

\* (SELECT * FROM LATERAL (SELECT * FROM student) AS v), as a sublink
LateralSubLink ==
    SubLink(Select(<<RangeSubselect(TRUE,
                                    Select(<<RangeVar("student", "")>>,
                                           NilNode),
                                    "v", <<>>)>>, NilNode))

\* (a.id, a.name) = (SELECT * FROM LATERAL (SELECT * FROM student) AS v)
RowLateral(a) ==
    AExpr("OP", "=", RowExpr(<<ColumnRef(<<a, "id">>),
                               ColumnRef(<<a, "name">>)>>),
          LateralSubLink)

\* the constant false
ConstFalse == AConst("bool", 0)

\* EXISTS (SELECT * FROM student)
ExistsStudent == SubLink(Select(<<RangeVar("student", "")>>, NilNode))

AtomInputs ==
    {Eq(a, c, k) : a \in {"student", "s"}, c \in {"id", "name"}, k \in Ids}
    \cup {Eq("administrative_class", c, k) :
              c \in {"id", "advisor_id"}, k \in Ids}
    \cup {Eq("subquery", c, k) : c \in {"id", "sid", "name"}, k \in Ids}
    \* k = student.id, student.id <> k, student.id > k, id = k
    \cup {AExpr("OP", "=", AConst("int", k), ColumnRef(<<"student", "id">>)) :
              k \in Ids}
    \cup {AExpr("OP", "<>", ColumnRef(<<"student", "id">>), AConst("int", k)) :
              k \in Ids}
    \cup {AExpr("OP", ">", ColumnRef(<<"student", "id">>), AConst("int", 1))}
    \cup {AExpr("OP", "=", ColumnRef(<<"id">>), AConst("int", k)) : k \in Ids}
    \* student = 1, student.id = 'a', student.id = course.id
    \cup {AExpr("OP", "=", ColumnRef(<<"student">>), AConst("int", 1)),
          AExpr("OP", "=", ColumnRef(<<"student", "id">>), AConst("str", 0)),
          AExpr("OP", "=", ColumnRef(<<"student", "id">>),
                ColumnRef(<<"course", "id">>))}
    \* student.id IN (k) with the item an A_Const, an Integer, a String
    \cup {AExpr("IN", "=", ColumnRef(<<"student", "id">>), ListNode(<<i>>)) :
              i \in {AConst("int", 1), IntegerNode(1), IntegerNode(MaxId),
                     StringNode("1"), FloatNode("1"), ColumnRef(<<"1">>),
                     ColumnRef(<<"student", "id">>)}}
    \cup {AExpr("IN", "=", ColumnRef(<<"student", "id">>),
                ListNode(<<IntegerNode(1), IntegerNode(MaxId)>>))}
    \cup {RowEq(a, k) : a \in {"student", "s"}, k \in Ids}
    \cup {ConstFalse, ExistsStudent, PinnedSubLink("student", 1)}
    \cup {RowLateral(a) : a \in {"student", "s"}}
    \cup {LateralSubLink}

\* the arguments given to AND, OR and NOT
BoolAtoms ==
    {Eq("student", "id", k) : k \in {1, MaxId}}
    \cup {Eq("administrative_class", "id", 1), RowEq("student", 1),
          ConstFalse}

ArgSeqs == UNION {[1..n -> BoolAtoms] : n \in 1..MaxArgs}

\* NOT a, NOT (student.id <> k), NOT without argument, NOT (NOT a)
NotInputs ==
    {BoolExpr("NOT", <<a>>) : a \in BoolAtoms}
    \cup {BoolExpr("NOT", <<AExpr("OP", "<>", ColumnRef(<<"student", "id">>),
                                  AConst("int", k))>>) : k \in Ids}
    \cup {BoolExpr("NOT", <<>>), BoolExpr("NOT", <<BoolExpr("NOT", <<>>)>>),
          BoolExpr("NOT", <<LateralSubLink>>)}
    \* NOT (NOT (student.id = k))
    \cup {BoolExpr("NOT", <<BoolExpr("NOT", <<Eq("student", "id", k)>>)>>) :
              k \in Ids}

\* AND and OR over the argument lists, and two nested expressions
BoolInputs ==
    {BoolExpr(op, args) : op \in {"AND", "OR"}, args \in ArgSeqs}
    \cup {BoolExpr("OR", <<BoolExpr("AND", <<RowEq("student", 1),
                                             ConstFalse>>),
                           Eq("student", "id", MaxId)>>),
          BoolExpr("AND", <<BoolExpr("OR", <<Eq("student", "id", 1),
                                            Eq("student", "id", MaxId)>>),
                            Eq("administrative_class", "id", 1)>>)}
    \* a NOT without argument and a LATERAL subselect below AND and OR
    \cup {BoolExpr(op, args) : op \in {"AND", "OR"},
              args \in {<<BoolExpr("NOT", <<>>), Eq("student", "id", 1)>>,
                        <<Eq("student", "id", 1), BoolExpr("NOT", <<>>)>>,
                        <<Eq("student", "id", 1), LateralSubLink>>}}

PredicateInputs == AtomInputs \cup NotInputs \cup {NilBoolExpr}

ScopeSpecs ==
    {<<>>,
     <<D("student", "student", "copy")>>,
     <<D("student", "s", "copy")>>,
     <<D("student", "student", "copy"),
       D("administrative_class", "administrative_class", "copy")>>,
     <<D("student", "student", "none")>>,
     <<D("student", "student", "self")>>,
     <<D("student", "student", "empty")>>,
     <<D("subquery", "subquery", "")>>,
     <<D("subquery", "subquery", "renamed")>>,
     <<D("subquery", "subquery", ""), D("student", "student", "copy")>>}

\* the scopes AND and OR are evaluated against
BoolScopeSpecs ==
    {<<D("student", "student", "copy")>>,
     <<D("student", "student", "copy"),
       D("administrative_class", "administrative_class", "copy")>>,
     <<D("student", "student", "none")>>,
     <<D("subquery", "subquery", ""), D("student", "student", "copy")>>}

\* the callers AND and OR are evaluated for
BoolUsers == [Role : {"student", "professor"}, ID : Ids]

\* SELECT * FROM student
FromStudent == Select(<<RangeVar("student", "")>>, NilNode)

FromInputs ==
    {<<>>}
    \cup {<<RangeVar(t, "")>> :
              t \in {"student", "course", "semester", "administrative_class"}}
    \cup {<<RangeVar("student", "s")>>,
          <<RangeVar("course", ""), RangeVar("student", "")>>,
          \* course JOIN student ON student.id = 1
          <<JoinExpr("INNER", RangeVar("course", ""), RangeVar("student", ""),
                     Eq("student", "id", 1), FALSE, FALSE, "")>>,
          \* course NATURAL JOIN semester
          <<JoinExpr("INNER", RangeVar("course", ""), RangeVar("semester", ""),
                     NilNode, FALSE, TRUE, "")>>,
          \* (SELECT * FROM student) and (SELECT * FROM student) AS v
          <<RangeSubselect(FALSE, FromStudent, "", <<>>)>>,
          <<RangeSubselect(FALSE, FromStudent, "v", <<>>)>>,
          <<RangeSubselect(TRUE, FromStudent, "v", <<>>)>>,
          \* a join without left side, a join without right side
          <<JoinExpr("INNER", NilNode, RangeVar("student", ""),
                     Eq("student", "id", 1), FALSE, FALSE, "")>>,
          <<JoinExpr("INNER", RangeVar("student", ""), NilNode,
                     Eq("student", "id", 1), FALSE, FALSE, "")>>}

WhereInputs ==
    {NilNode, ConstFalse, ExistsStudent,
     \* course.id = (SELECT * FROM student), student.id > 1
     AExpr("OP", "=", ColumnRef(<<"course", "id">>), ExistsStudent),
     AExpr("OP", ">", ColumnRef(<<"student", "id">>), AConst("int", 1)),
     BoolExpr("AND", <<Eq("student", "id", 1), ConstFalse>>)}
    \cup {AExpr("OP", "=", ColumnRef(<<"id">>), AConst("int", k)) : k \in Ids}
    \cup {Eq(a, "id", k) : a \in {"student", "s"}, k \in Ids}

\* SELECT * FROM course_class WHERE professor_id = k
CourseClassOf(k) ==
    Select(<<RangeVar("course_class", "")>>,
           AExpr("OP", "=", ColumnRef(<<"professor_id">>), AConst("int", k)))

\* a = b over two column references
ColEq(a, b) == AExpr("OP", "=", ColumnRef(a), ColumnRef(b))

\* SELECT * FROM course c
\*   JOIN course_class_enrollment e ON c.id = e.course_class_id
\*   JOIN student s ON e.student_id = s.id WHERE s.id = k
JoinChain(k) ==
    Select(<<JoinExpr("INNER",
                      JoinExpr("INNER", RangeVar("course", "c"),
                               RangeVar("course_class_enrollment", "e"),
                               ColEq(<<"c", "id">>, <<"e", "course_class_id">>),
                               FALSE, FALSE, ""),
                      RangeVar("student", "s"),
                      ColEq(<<"e", "student_id">>, <<"s", "id">>),
                      FALSE, FALSE, "")>>,
           Eq("s", "id", k))

\* WITH c AS (inner) SELECT * FROM c
WithCte(inner) ==
    SelectStmt(FALSE, <<CommonTableExpr("c", inner)>>, "NONE", NilNode,
               NilNode, <<RangeVar("c", "")>>, NilNode, NilNode, TRUE,
               <<StarTarget>>)

\* SELECT * FROM course; SELECT * FROM student WHERE student.id = k;
\* SELECT * FROM student
CteInners ==
    {Select(<<RangeVar("course", "")>>, NilNode), FromStudent}
    \cup {Select(<<RangeVar("student", "")>>, Eq("student", "id", k)) :
              k \in Ids}

SelectInputs ==
    {Select(f, w) : f \in FromInputs, w \in WhereInputs}
    \cup {SetOp(op, FromStudent, Select(<<RangeVar("course", "")>>, NilNode)) :
              op \in {"UNION", "INTERSECT", "EXCEPT"}}
    \cup {SetOp(op, Select(<<>>, NilNode), FromStudent) :
              op \in {"UNION", "INTERSECT", "EXCEPT"}}
    \* SELECT * FROM (SELECT * FROM student) AS v op SELECT * FROM course
    \cup {SetOp(op, Select(<<RangeSubselect(FALSE, FromStudent, "v", <<>>)>>,
                            NilNode),
                 Select(<<RangeVar("course", "")>>, NilNode)) :
              op \in {"UNION", "INTERSECT", "EXCEPT"}}
    \* SELECT * FROM course op SELECT * FROM student WHERE id = k
    \cup {SetOp(op, Select(<<RangeVar("course", "")>>, NilNode),
                 Select(<<RangeVar("student", "")>>,
                        AExpr("OP", "=", ColumnRef(<<"id">>),
                              AConst("int", k)))) :
              op \in {"UNION", "INTERSECT", "EXCEPT"}, k \in Ids}
    \cup {\* SELECT * INTO t FROM student
          SelectStmt(TRUE, <<>>, "NONE", NilNode, NilNode,
                     <<RangeVar("student", "")>>, NilNode, NilNode, TRUE,
                     <<StarTarget>>),
          \* SELECT * FROM student HAVING student.id = 1
          SelectStmt(FALSE, <<>>, "NONE", NilNode, NilNode,
                     <<RangeVar("student", "")>>, NilNode,
                     Eq("student", "id", 1), TRUE, <<StarTarget>>)}
    \* SELECT * FROM course_class WHERE professor_id = k
    \cup {CourseClassOf(k) : k \in Ids}
    \cup {JoinChain(k) : k \in Ids}
    \cup {WithCte(inner) : inner \in CteInners}

\* the statements a text can hold besides a SELECT
OtherStmts == {OtherStmt("InsertStmt"), OtherStmt("UpdateStmt"),
               OtherStmt("DeleteStmt")}

QueryInputs ==
    {ParseFailure, Parsed(<<>>)}
    \cup {Parsed(<<o>>) : o \in OtherStmts}
    \cup {Parsed(<<q>>) : q \in SelectInputs}
    \cup {Parsed(<<Select(f, NilNode), o>>) :
              f \in FromInputs, o \in OtherStmts \cup {FromStudent}}
    \cup {Parsed(<<o, FromStudent>>) : o \in OtherStmts}

TableNames ==
    {"program", "semester", "course", "course_program", "course_class",
     "course_class_schedule", "course_schedule_instructor", "faculty",
     "student", "professor", "administrative_class", "student_course_class",
     "student_scholarship"}

(***************************************************************************)
(* The state machine.  req is the call being served ("none" when idle),    *)
(* resp what it returned; a call starts from its arguments alone, and the  *)
(* next call is taken after the caller has collected the response.         *)
(***************************************************************************)
\* what the caller sees of a call r of AuthorizeNode on the scope tables
Outcome(api, r, tables) ==
    [api |-> api, st |-> r.st, msg |-> r.msg,
     Authorized |-> r.st = "ok" /\ r.Authorized,
     tables |-> IF r.st = "ok" THEN ScopeView(r.h, r.Tables) ELSE <<>>,
     unresolved |-> IF r.st = "ok" THEN Unresolved(r.h, r.Tables) ELSE {},
     input |-> ScopeView(r.h, tables)]

\* AuthorizeNode on the scope built from spec
Call(spec, node, neg, user) ==
    AuthorizeNode(Scope(spec).h, node, Scope(spec).tables, neg, user)

\* a StreamChunk, and the absence of one
StreamChunk(content, done) == [Content |-> content, Done |-> done]

NoChunk == [Content |-> "", Done |-> FALSE, none |-> TRUE]

Init ==
    /\ req = [api |-> "none"]
    /\ resp = [api |-> "none"]
    /\ producer = "none"
    /\ consumer = "start"
    /\ pending = NoChunk
    /\ chunk = NoChunk
    /\ closed = FALSE
    /\ recvd = 0
    /\ written = <<>>
    /\ copyOfNil \in {"nil", "empty", "panic"}

Idle == req.api = "none"

\* validateQuery called with a context that carries a role, "guest" being
\* no role of the system, or with one that carries none
ValidateQuery ==
    /\ Idle
    /\ \E parsed \in QueryInputs,
          ctx \in {<<>>} \cup {<<r>> : r \in Roles \cup {"guest"}} :
        /\ req' = [api |-> "validateQuery", parsed |-> parsed, ctx |-> ctx]
        /\ resp' = validateQuery(ctx, parsed)
    /\ UNCHANGED svars

\* ExecuteQuery called on behalf of a user of the given role.  The caller
\* in the repository, StreamChatResponse (chatbot/service.go 244 and 288),
\* passes the context of the HTTP request (part_011 189), in which nothing
\* has stored a userRole; a caller of the DB interface that has stored the
\* role passes it on
ExecuteQueryCall ==
    /\ Idle
    /\ \E parsed \in QueryInputs, role \in Roles,
          db \in {"ok", "query", "columns", "scan", "rows"} :
        \E ctx \in {<<>>, <<role>>} :
            /\ req' = [api |-> "ExecuteQuery", parsed |-> parsed,
                       ctx |-> ctx, role |-> role]
            /\ resp' = ExecuteQuery(ctx, parsed, db)
    /\ UNCHANGED svars

IsPublicTable ==
    /\ Idle
    /\ \E name \in TableNames :
        /\ req' = [api |-> "isPublicTable", name |-> name]
        /\ resp' = [api |-> "isPublicTable", public |-> isPublicTable(name)]
    /\ UNCHANGED svars

GetAuthorizationColumn ==
    /\ Idle
    /\ \E name \in TableNames, role \in Roles :
        /\ req' = [api |-> "getAuthorizationColumn", name |-> name,
                   role |-> role]
        /\ resp' = [api |-> "getAuthorizationColumn",
                    column |-> getAuthorizationColumn(name, role)]
    /\ UNCHANGED svars

\* AuthorizeNode on a SELECT statement with an empty scope
AuthorizeSelect ==
    /\ Idle
    /\ \E stmt \in SelectInputs, user \in Users :
        /\ req' = [api |-> "AuthorizeSelect", spec |-> <<>>, node |-> stmt,
                   neg |-> FALSE, user |-> user]
        /\ resp' = Outcome("AuthorizeSelect", Call(<<>>, stmt, FALSE, user),
                           Scope(<<>>).tables)
    /\ UNCHANGED svars

\* AuthorizeNode on a predicate with a scope built by the caller
AuthorizePredicate ==
    /\ Idle
    /\ \E spec \in ScopeSpecs, node \in PredicateInputs, neg \in BOOLEAN,
          user \in Users :
        /\ req' = [api |-> "AuthorizePredicate", spec |-> spec,
                   node |-> node, neg |-> neg, user |-> user]
        /\ resp' = Outcome("AuthorizePredicate", Call(spec, node, neg, user),
                           Scope(spec).tables)
    /\ UNCHANGED svars

\* AuthorizeNode on an AND or an OR with a scope built by the caller
AuthorizeBoolExpr ==
    /\ Idle
    /\ \E spec \in BoolScopeSpecs, node \in BoolInputs, neg \in BOOLEAN,
          user \in BoolUsers :
        /\ req' = [api |-> "AuthorizePredicate", spec |-> spec,
                   node |-> node, neg |-> neg, user |-> user]
        /\ resp' = Outcome("AuthorizePredicate", Call(spec, node, neg, user),
                           Scope(spec).tables)
    /\ UNCHANGED svars

\* authorizeRangeVar on an empty scope
AuthorizeRangeVar ==
    /\ Idle
    /\ \E name \in TableNames, alias \in {"", "x"}, user \in Users :
        /\ req' = [api |-> "authorizeRangeVar", node |-> RangeVar(name, alias),
                   user |-> user]
        /\ resp' = Outcome("authorizeRangeVar",
                           authorizeRangeVar(EmptyScope.h,
                                             RangeVar(name, alias),
                                             EmptyScope.tables, user),
                           EmptyScope.tables)
    /\ UNCHANGED svars

\* l jt JOIN r ON FALSE and l jt JOIN r ON student.id = 1, the sides
\* being two tables, two aliased subselects, or a table and an aliased
\* subselect
JoinInputs ==
    {JoinExpr(jt, lr[1], lr[2], q, FALSE, FALSE, "") :
        jt \in {"INNER", "LEFT", "RIGHT", "FULL", "SEMI"},
        lr \in {<<RangeVar("student", ""),
                  RangeVar("administrative_class", "")>>,
                <<RangeSubselect(FALSE, FromStudent, "l", <<>>),
                  RangeSubselect(FALSE, FromStudent, "r", <<>>)>>,
                <<RangeVar("student", ""),
                  RangeSubselect(FALSE, FromStudent, "r", <<>>)>>},
        q \in {ConstFalse, Eq("student", "id", 1)}}

\* AuthorizeNode on a join with a scope built by the caller: empty, student,
\* student and administrative_class
AuthorizeJoin ==
    /\ Idle
    /\ \E spec \in {<<>>, <<D("student", "student", "copy")>>,
                     <<D("student", "student", "copy"),
                       D("administrative_class", "administrative_class",
                         "copy")>>},
          node \in JoinInputs, user \in Users :
        /\ req' = [api |-> "AuthorizeJoin", spec |-> spec, node |-> node,
                   neg |-> FALSE, user |-> user]
        /\ resp' = Outcome("AuthorizeJoin", Call(spec, node, FALSE, user),
                           Scope(spec).tables)
    /\ UNCHANGED svars

\* the caller collects the response
Return ==
    /\ ~Idle
    /\ req' = [api |-> "none"]
    /\ resp' = [api |-> "none"]
    /\ UNCHANGED svars

Next ==
    \/ Return
    \/ ValidateQuery
    \/ ExecuteQueryCall
    \/ IsPublicTable
    \/ GetAuthorizationColumn
    \/ AuthorizeSelect
    \/ AuthorizePredicate
    \/ AuthorizeBoolExpr
    \/ AuthorizeRangeVar
    \/ AuthorizeJoin

Spec == Init /\ [][Next]_vars

(***************************************************************************)
(* The streaming of the answer: llm/openai.go StreamComplete and the loop  *)
(* of chatbot/service.go StreamChatResponse over the channel it returns.   *)
(* The channel is unbuffered: a send completes together with a receive.    *)
(***************************************************************************)
\* the responses stream.Recv delivers before the upstream ends
MaxRecv == 3

\* the contents of a delta
Contents == {"a", "b"}

\* unnamed/part_011 155-159 and 191-199 (ChatController.ChatStreamHandler):
\* a body that does not bind is answered "Invalid request: ..." and the
\* service is not called; when the service returns an error other than
\* context.Canceled, "Failed to stream response: ..." is written to the
\* same writer, after whatever the service has written (a failing write
\* leaves what a cancellation leaves)
ChatStreamHandler ==
    /\ \/ /\ consumer = "start"
          /\ written' = Append(written, "Invalid request")
          /\ consumer' = "rejected"
       \/ /\ consumer = "failed"
          /\ \E canceled \in BOOLEAN :
              written' = IF canceled
                         THEN written
                         ELSE Append(written, "Failed to stream response")
          /\ consumer' = "reported"
    /\ UNCHANGED <<copyOfNil, req, resp, producer, pending, chunk, closed, recvd>>

\* service.go 64-75 (StreamChatResponseV2; StreamChatResponse writes
\* nothing before its loop): req.Messages[len(req.Messages)-1] panics on
\* an empty list, which the handler does not exclude; a failing
\* validateUserQuery is only logged and leaves the zero ValidationResult;
\* a result that is not valid has its message written as an SSE event, and
\* the function returns the error of that write
ValidateUserQuery ==
    /\ consumer = "start"
    /\ \E nMessages \in 0..1, isValid \in BOOLEAN, message \in {"", "m"},
          err \in BOOLEAN, werr \in BOOLEAN :
        IF nMessages = 0
        THEN /\ consumer' = "panic"
             /\ UNCHANGED written
        ELSE IF isValid /\ ~err
        THEN /\ consumer' = "validated"
             /\ UNCHANGED written
        ELSE IF werr
        THEN /\ consumer' = "failed"
             /\ UNCHANGED written
        ELSE /\ written' = Append(written, IF err THEN "" ELSE message)
             /\ consumer' = "validated"
    /\ UNCHANGED <<copyOfNil, req, resp, producer, pending, chunk, closed, recvd>>

\* service.go 78-86: the call for the tool calls fails and its error is
\* returned, what was written staying written, or it succeeds (the errors
\* of LoadDDL and of the executed tool calls are dropped)
GetToolCallsByAI ==
    /\ consumer = "validated"
    /\ \E err \in BOOLEAN :
        consumer' = IF err THEN "failed" ELSE "ready"
    /\ UNCHANGED <<copyOfNil, req, resp, producer, pending, chunk, closed, recvd, written>>

\* lines 33-39 and 41-42, service.go 126-130 and 317-320: the stream is
\* opened or the call fails; on success the goroutine starts and the loop
\* begins
StreamComplete ==
    /\ consumer = "ready"
    /\ \E err \in BOOLEAN :
        IF err
        THEN /\ consumer' = "failed"
             /\ UNCHANGED producer
        ELSE /\ consumer' = "range"
             /\ producer' = "recv"
    /\ UNCHANGED <<copyOfNil, req, resp, pending, chunk, closed, recvd, written>>

\* lines 47-62: stream.Recv returns io.EOF, another error, a response with
\* a choice or a response without choice
ProducerRecv ==
    /\ producer = "recv"
    /\ \/ /\ pending' = StreamChunk("", TRUE)
          /\ producer' = "send"
          /\ UNCHANGED recvd
       \/ /\ producer' = "exit"
          /\ UNCHANGED <<pending, recvd>>
       \/ /\ recvd < MaxRecv
          /\ \E c \in Contents :
              /\ pending' = StreamChunk(c, FALSE)
              /\ producer' = "send"
          /\ recvd' = recvd + 1
       \/ /\ recvd < MaxRecv
          /\ recvd' = recvd + 1
          /\ UNCHANGED <<pending, producer>>
    /\ UNCHANGED <<copyOfNil, req, resp, consumer, chunk, closed, written>>

\* lines 49 and 58-60 with service.go 322: the send `chunks <- c` meets the
\* receive of `for chunk := range chunks`; after the Done chunk the
\* goroutine returns
ProducerSend ==
    /\ producer = "send"
    /\ consumer = "range"
    /\ chunk' = pending
    /\ pending' = NoChunk
    /\ consumer' = "body"
    /\ producer' = IF pending.Done THEN "exit" ELSE "recv"
    /\ UNCHANGED <<copyOfNil, req, resp, closed, recvd, written>>

\* lines 43-44: the deferred stream.Close() and close(chunks)
ProducerClose ==
    /\ producer = "exit"
    /\ producer' = "done"
    /\ closed' = TRUE
    /\ UNCHANGED <<copyOfNil, req, resp, consumer, pending, chunk, recvd, written>>

\* service.go 323-335 (and 133-145): [DONE] is written, the error of that
\* write being ignored, and the loop returns nil; or the chunk is written
\* as an SSE event, and the loop returns the error when that write fails
ConsumerBody ==
    /\ consumer = "body"
    /\ IF chunk.Done
       THEN /\ \E err \in BOOLEAN :
                written' = IF err THEN written ELSE Append(written, "[DONE]")
            /\ consumer' = "returned"
       ELSE \E err \in BOOLEAN :
            IF err
            THEN /\ consumer' = "failed"
                 /\ UNCHANGED written
            ELSE /\ written' = Append(written, chunk.Content)
                 /\ consumer' = "range"
    /\ UNCHANGED <<copyOfNil, req, resp, producer, pending, chunk, closed, recvd>>

\* service.go 322 and 337: the range ends on the closed channel
ConsumerRangeEnd ==
    /\ consumer = "range"
    /\ closed
    /\ consumer' = "returned"
    /\ UNCHANGED <<copyOfNil, req, resp, producer, pending, chunk, closed, recvd, written>>

StreamNext ==
    \/ ChatStreamHandler
    \/ ValidateUserQuery
    \/ GetToolCallsByAI
    \/ StreamComplete
    \/ ProducerRecv
    \/ ProducerSend
    \/ ProducerClose
    \/ ConsumerBody
    \/ ConsumerRangeEnd

\* the Go scheduler runs every goroutine that can take a step, and the
\* upstream answers every Recv
StreamSpec ==
    /\ Init
    /\ [][StreamNext]_vars
    /\ WF_vars(ChatStreamHandler)
    /\ WF_vars(ValidateUserQuery)
    /\ WF_vars(GetToolCallsByAI)
    /\ WF_vars(StreamComplete)
    /\ WF_vars(ProducerRecv)
    /\ WF_vars(ProducerSend)
    /\ WF_vars(ProducerClose)
    /\ WF_vars(ConsumerBody)
    /\ WF_vars(ConsumerRangeEnd)

(***************************************************************************)
(* Properties.                                                             *)
(***************************************************************************)
\* the public set the specification fixes
SpecPublicTables ==
    {"program", "semester", "course", "course_program", "course_class",
     "course_class_schedule", "course_schedule_instructor", "faculty"}

\* the relations named anywhere in a parse tree
RECURSIVE Relations(_)
Relations(n) ==
    LET all(s) == UNION {Relations(s[i]) : i \in 1..Len(s)} IN
    CASE n.t = "RangeVar" -> {n.rel}
      [] n.t = "SelectStmt" ->
           all(n.from) \cup all(n.ctes) \cup Relations(n.where)
           \cup Relations(n.having) \cup Relations(n.larg)
           \cup Relations(n.rarg)
      [] n.t = "JoinExpr" ->
           Relations(n.larg) \cup Relations(n.rarg) \cup Relations(n.quals)
      [] n.t = "RangeSubselect" -> Relations(n.sub)
      [] n.t = "SubLink" -> Relations(n.sub)
      [] n.t = "CommonTableExpr" -> Relations(n.query)
      [] n.t = "BoolExpr" -> all(n.args)
      [] n.t = "AExpr" -> Relations(n.l) \cup Relations(n.r)
      [] n.t = "RowExpr" -> all(n.args)
      [] n.t = "List" -> all(n.items)
      [] OTHER -> {}

\* the text parsed to exactly one statement, a SELECT
SingleSelect(parsed) ==
    /\ ~parsed.parseErr
    /\ Len(parsed.stmts) = 1
    /\ parsed.stmts[1].t = "SelectStmt"

\* the request is made for the role r: validateQuery finds r in its
\* context, or ExecuteQuery is called on behalf of a user of role r
MadeFor(r) ==
    \/ req.api = "validateQuery" /\ req.ctx = <<r>>
    \/ req.api = "ExecuteQuery" /\ req.role = r

\* C2: for role admin the facade accepts every input that parses to a
\* single SELECT statement, whatever it reads, and refuses an admin request
\* only when the text fails to parse or its statement is not a SELECT.
C2_AdminAcceptsEverySelect ==
    MadeFor("admin") =>
        /\ SingleSelect(req.parsed) => resp.st = "ok" /\ resp.valid
        /\ ~resp.valid =>
              \/ req.parsed.parseErr
              \/ ~(/\ Len(req.parsed.stmts) >= 1
                    /\ req.parsed.stmts[1].t = "SelectStmt")

\* C3: for a student or a professor, every SELECT whose relations all
\* belong to the public set of eight tables is Authorized, with or without
\* a WHERE clause, and the catalog classifies each of the eight as public.
C3_PublicTablesAuthorized ==
    /\ (req.api = "isPublicTable" /\ req.name \in SpecPublicTables) =>
           resp.public
    /\ (/\ req.api = "AuthorizeSelect"
        /\ req.user.Role \in {"student", "professor"}
        /\ Relations(req.node) # {}
        /\ Relations(req.node) \subseteq SpecPublicTables) =>
           resp.Authorized

\* C10: the facade refuses every input that does not parse to exactly one
\* statement or whose statement is not a SELECT, for every role.
C10_FacadeRefusesAllButOneSelect ==
    (req.api = "validateQuery" /\ ~SingleSelect(req.parsed)) => ~resp.valid

\* the pairs [col, k] of the predicates col = k, k = col and col IN (k) of
\* a parse tree, col being the last field of the column reference
RECURSIVE PinAtoms(_)
PinAtoms(n) ==
    LET all(q) == UNION {PinAtoms(q[i]) : i \in 1..Len(q)}
        last(fs) == fs[Len(fs)]
        pin(c, k) ==
            IF c.t = "ColumnRef" /\ Len(c.fields) > 0 /\ k.t = "AConst"
               /\ k.kind = "int"
            THEN {[col |-> last(c.fields), k |-> k.ival]}
            ELSE IF c.t = "ColumnRef" /\ Len(c.fields) > 0 /\ k.t = "Integer"
            THEN {[col |-> last(c.fields), k |-> k.ival]}
            ELSE {}
    IN
    CASE n.t = "AExpr" ->
           (IF n.name = "=" /\ n.kind = "OP"
            THEN pin(n.l, n.r) \cup pin(n.r, n.l) ELSE {})
           \cup (IF n.kind = "IN" /\ n.r.t = "List"
                 THEN UNION {pin(n.l, n.r.items[i]) :
                                 i \in 1..Len(n.r.items)}
                 ELSE {})
           \cup PinAtoms(n.l) \cup PinAtoms(n.r)
      [] n.t = "SelectStmt" ->
           all(n.from) \cup all(n.ctes) \cup PinAtoms(n.where)
           \cup PinAtoms(n.having) \cup PinAtoms(n.larg)
           \cup PinAtoms(n.rarg)
      [] n.t = "JoinExpr" ->
           PinAtoms(n.larg) \cup PinAtoms(n.rarg) \cup PinAtoms(n.quals)
      [] n.t = "RangeSubselect" -> PinAtoms(n.sub)
      [] n.t = "SubLink" -> PinAtoms(n.sub)
      [] n.t = "CommonTableExpr" -> PinAtoms(n.query)
      [] n.t = "BoolExpr" -> all(n.args)
      [] n.t = "RowExpr" -> all(n.args)
      [] OTHER -> {}

\* the private database tables a parse tree references
PrivateRelations(n) == (Relations(n) \cap TableNames) \ SpecPublicTables

\* C1: for a student or a professor, a SELECT is Authorized only if every
\* private table it references anywhere is constrained by a predicate
\* that pins the table's authorization column to the caller's id.
C1_AuthorizedOnlyIfPinned ==
    (/\ req.api = "AuthorizeSelect"
     /\ req.user.Role \in {"student", "professor"}
     /\ resp.Authorized) =>
        \A t \in PrivateRelations(req.node) :
            /\ getAuthorizationColumn(t, req.user.Role) # ""
            /\ [col |-> getAuthorizationColumn(t, req.user.Role),
                k |-> req.user.ID] \in PinAtoms(req.node)

\* C4: for student i, SELECT * FROM student WHERE student.id = k (or
\* WHERE id = k) is Authorized when k = i, and Rejected with student
\* unresolved when k differs from i.
C4_OwnRowOnly ==
    \A k \in Ids :
        (/\ req.api = "AuthorizeSelect"
         /\ req.user.Role = "student"
         /\ req.node \in
                {Select(<<RangeVar("student", "")>>, Eq("student", "id", k)),
                 Select(<<RangeVar("student", "")>>,
                        AExpr("OP", "=", ColumnRef(<<"id">>),
                              AConst("int", k)))}) =>
            IF k = req.user.ID THEN resp.Authorized
            ELSE ~resp.Authorized /\ "student" \in resp.unresolved

\* the outcome of the i-th argument of the request's BoolExpr evaluated
\* alone against the request's scope
ArgOutcome(i) ==
    Outcome("argument",
            Call(req.spec, req.node.args[i], req.neg, req.user),
            Scope(req.spec).tables)

\* the obligations of the d-th descriptor of a scope view
Obligations(view, d) ==
    {view[d].obligations[j] : j \in 1..Len(view[d].obligations)}

\* an AND or OR request all of whose arguments, and the node itself,
\* returned a result
BoolRequest(op) ==
    /\ req.api = "AuthorizePredicate"
    /\ req.node.t = "BoolExpr"
    /\ req.node.op = op
    /\ Len(req.node.args) > 0
    /\ resp.st = "ok"
    /\ \A i \in 1..Len(req.node.args) : ArgOutcome(i).st = "ok"

\* C6: after an AND the obligations of each descriptor are exactly the
\* intersection of the obligations left on it by each argument evaluated
\* alone against the same scope.
C6_AndIsIntersection ==
    BoolRequest("AND") =>
        \A d \in 1..Len(resp.tables) :
            Obligations(resp.tables, d) =
                {o \in Obligations(ArgOutcome(1).tables, d) :
                    \A i \in 1..Len(req.node.args) :
                        o \in Obligations(ArgOutcome(i).tables, d)}

\* C7: if a SELECT without WHERE clause is Rejected, the same SELECT with
\* WHERE false is Rejected too, and it leaves the same tables unresolved.
C7_WhereFalseNeverAuthorizes ==
    (/\ req.api = "AuthorizeSelect"
     /\ req.node.op = "NONE"
     /\ req.node.where = NilNode
     /\ ~resp.Authorized) =>
        LET r == Outcome("AuthorizeSelect",
                         Call(req.spec, [req.node EXCEPT !.where = ConstFalse],
                              req.neg, req.user),
                         Scope(req.spec).tables)
        IN /\ ~r.Authorized
           /\ r.st = resp.st
           /\ r.unresolved = resp.unresolved

\* student 1 was refused SELECT * FROM student, and is refused it with
\* WHERE false
C7_Witness ==
    /\ req.api = "AuthorizeSelect"
    /\ req.node = Select(<<RangeVar("student", "")>>, NilNode)
    /\ req.user = [Role |-> "student", ID |-> 1]
    /\ resp.st = "ok"
    /\ ~resp.Authorized
    /\ ~Call(<<>>, Select(<<RangeVar("student", "")>>, ConstFalse), FALSE,
             req.user).Authorized

\* C9: evaluating a predicate node against a scope leaves the descriptors
\* and the obligation sets of that scope unchanged.
C9_InputScopeUnchanged ==
    (req.api = "AuthorizePredicate" /\ resp.st = "ok") =>
        resp.input = ScopeView(Scope(req.spec).h, Scope(req.spec).tables)

\* C5: after an OR the obligations of each descriptor are exactly the
\* union of the obligations left on it by each argument evaluated alone
\* against the same scope.
C5_OrIsUnion ==
    BoolRequest("OR") =>
        \A d \in 1..Len(resp.tables) :
            Obligations(resp.tables, d) =
                UNION {Obligations(ArgOutcome(i).tables, d) :
                           i \in 1..Len(req.node.args)}

\* a row expression occurs in the parse tree
RECURSIVE HasRowExpr(_)
HasRowExpr(n) ==
    CASE n.t = "RowExpr" -> TRUE
      [] n.t = "AExpr" -> HasRowExpr(n.l) \/ HasRowExpr(n.r)
      [] n.t = "BoolExpr" -> \E i \in 1..Len(n.args) : HasRowExpr(n.args[i])
      [] OTHER -> FALSE

\* the union property of OR, for the requests without a row expression
C5_OrIsUnionWithoutRowExpr ==
    (BoolRequest("OR") /\ ~HasRowExpr(req.node)) =>
        \A d \in 1..Len(resp.tables) :
            Obligations(resp.tables, d) =
                UNION {Obligations(ArgOutcome(i).tables, d) :
                           i \in 1..Len(req.node.args)}

\* the alias given to student by the renaming; it occurs in no input
FreshAlias == "x"

\* the parse tree with every `student` of a FROM list written
\* `student AS x` and every column reference student.c written x.c
RECURSIVE RenameNode(_)
RenameNode(n) ==
    CASE n.t = "RangeVar" ->
             IF n.rel = "student" /\ n.alias = ""
             THEN [n EXCEPT !.alias = FreshAlias] ELSE n
      [] n.t = "ColumnRef" ->
             IF Len(n.fields) >= 1 /\ n.fields[1] = "student"
             THEN [n EXCEPT !.fields[1] = FreshAlias] ELSE n
      [] n.t = "AExpr" ->
             [n EXCEPT !.l = RenameNode(n.l), !.r = RenameNode(n.r)]
      [] n.t = "BoolExpr" ->
             [n EXCEPT !.args = [i \in 1..Len(n.args) |-> RenameNode(n.args[i])]]
      [] n.t = "RowExpr" ->
             [n EXCEPT !.args = [i \in 1..Len(n.args) |-> RenameNode(n.args[i])]]
      [] n.t = "List" ->
             [n EXCEPT !.items = [i \in 1..Len(n.items) |-> RenameNode(n.items[i])]]
      [] n.t = "SubLink" -> [n EXCEPT !.sub = RenameNode(n.sub)]
      [] n.t = "RangeSubselect" -> [n EXCEPT !.sub = RenameNode(n.sub)]
      [] n.t = "CommonTableExpr" -> [n EXCEPT !.query = RenameNode(n.query)]
      [] n.t = "JoinExpr" ->
             [n EXCEPT !.larg = RenameNode(n.larg), !.rarg = RenameNode(n.rarg),
                       !.quals = RenameNode(n.quals)]
      [] n.t = "SelectStmt" ->
             [n EXCEPT !.larg = RenameNode(n.larg), !.rarg = RenameNode(n.rarg),
                       !.ctes = [i \in 1..Len(n.ctes) |-> RenameNode(n.ctes[i])],
                       !.from = [i \in 1..Len(n.from) |-> RenameNode(n.from[i])],
                       !.where = RenameNode(n.where),
                       !.having = RenameNode(n.having)]
      [] OTHER -> n

\* the scope with the descriptor of student entered under the alias x
RenameSpec(spec) ==
    [i \in 1..Len(spec) |->
        IF spec[i].name = "student" /\ spec[i].alias = "student"
        THEN [spec[i] EXCEPT !.alias = FreshAlias] ELSE spec[i]]

\* the aliases of a result, x read as student
Unaliased(S) == {IF a = FreshAlias THEN "student" ELSE a : a \in S}

\* the descriptors of a result without their aliases
Anonymous(view) ==
    [i \in 1..Len(view) |->
        [name |-> view[i].name, obligations |-> view[i].obligations]]

\* the request names student without an alias
NamesStudent ==
    /\ req.api \in {"AuthorizePredicate", "AuthorizeSelect"}
    /\ \/ RenameNode(req.node) # req.node
       \/ RenameSpec(req.spec) # req.spec

\* C8: alias transparency.  A request that names student without an alias
\* and the same request with student entered AS x and its columns written
\* x.col end the same way, with the same verdict and the same unresolved
\* tables; authorizeRangeVar gives a table and the same table under an
\* alias the same verdict and the same descriptor; the facade answers the
\* two texts alike.
C8_AliasTransparency ==
    /\ NamesStudent =>
           \A r \in {Outcome(req.api,
                             Call(RenameSpec(req.spec), RenameNode(req.node),
                                  req.neg, req.user),
                             Scope(RenameSpec(req.spec)).tables)} :
               /\ r.st = resp.st
               /\ r.Authorized = resp.Authorized
               /\ Unaliased(r.unresolved) = resp.unresolved
    /\ (req.api = "authorizeRangeVar" /\ req.node.alias = "") =>
           \A r \in {Outcome("authorizeRangeVar",
                             authorizeRangeVar(EmptyScope.h,
                                 [req.node EXCEPT !.alias = FreshAlias],
                                 EmptyScope.tables, req.user),
                             EmptyScope.tables)} :
               /\ r.st = resp.st
               /\ r.Authorized = resp.Authorized
               /\ r.unresolved = {} /\ resp.unresolved = {}
               /\ Anonymous(r.tables) = Anonymous(resp.tables)
    /\ (req.api = "validateQuery" /\ ~req.parsed.parseErr) =>
           validateQuery(req.ctx,
                         [req.parsed EXCEPT !.stmts =
                              [i \in 1..Len(req.parsed.stmts) |->
                                  RenameNode(req.parsed.stmts[i])]]) = resp

\* student 1 asks for student.id = 1 against a scope that holds student
\* with its obligation, and the obligation is cleared
C8_Witness ==
    /\ req.api = "AuthorizePredicate"
    /\ req.spec = <<D("student", "student", "copy")>>
    /\ req.node = Eq("student", "id", 1)
    /\ ~req.neg
    /\ req.user = [Role |-> "student", ID |-> 1]
    /\ NamesStudent
    /\ resp.Authorized
    /\ resp.unresolved = {}

\* C11: for a role that is none of student, professor and admin, a context
\* without role included, the facade refuses every text whose statement is
\* a SELECT, with the message "Unknown role: <role>" and without error.
C11_UnknownRoleRefused ==
    (/\ req.api = "validateQuery"
     /\ \A r \in Roles : req.ctx # <<r>>
     /\ ~req.parsed.parseErr
     /\ Len(req.parsed.stmts) >= 1
     /\ req.parsed.stmts[1].t = "SelectStmt") =>
        /\ resp.st = "ok"
        /\ ~resp.valid
        /\ \A i \in 1..Len(req.ctx) :
               resp.msg = "Unknown role: " \o req.ctx[i]
        /\ ~resp.err

\* the request is a predicate evaluated, for a student or a professor,
\* against the scope that holds the one table student, under the alias a,
\* with its obligation
OnStudentScope(a) ==
    /\ req.api = "AuthorizePredicate"
    /\ req.spec = <<D("student", a, "copy")>>
    /\ req.user.Role # "admin"

\* the list item is the integer literal k
IsIntLiteral(item, k) ==
    \/ item.t = "AConst" /\ item.kind = "int" /\ item.ival = k
    \/ item.t = "Integer" /\ item.ival = k

\* C12: under positive polarity `t.c IN (list)` clears the obligation of t
\* if and only if c is the authorization column of t and the list has
\* exactly one element, the integer literal equal to the caller's id.
C12_InClearsOnlyOwnId ==
    \A a \in {"student", "s"} :
        (/\ OnStudentScope(a)
         /\ ~req.neg
         /\ req.node.t = "AExpr"
         /\ req.node.kind = "IN"
         /\ req.node.l.t = "ColumnRef"
         /\ Len(req.node.l.fields) = 2
         /\ req.node.l.fields[1] = a
         /\ req.node.r.t = "List") =>
            /\ resp.st = "ok"
            /\ (resp.unresolved = {} /\ resp.Authorized) <=>
                   /\ req.node.l.fields[2] =
                          getAuthorizationColumn("student", req.user.Role)
                   /\ Len(req.node.r.items) = 1
                   /\ IsIntLiteral(req.node.r.items[1], req.user.ID)

\* C13: the authorization column of course_class for a professor is
\* professor_id, and it is enforced: for professor p the statement
\* SELECT * FROM course_class WHERE professor_id = k is authorized when
\* k = p and otherwise refused with course_class unresolved.
C13_ProfessorCourseClass ==
    /\ (/\ req.api = "getAuthorizationColumn"
        /\ req.name = "course_class"
        /\ req.role = "professor") => resp.column = "professor_id"
    /\ \A k \in Ids :
           (/\ req.api = "AuthorizeSelect"
            /\ req.user.Role = "professor"
            /\ req.node = CourseClassOf(k)) =>
               /\ resp.st = "ok"
               /\ resp.Authorized <=> k = req.user.ID
               /\ k # req.user.ID => resp.unresolved = {"course_class"}

\* C14: for student 1 the chain course c JOIN course_class_enrollment e
\* JOIN student s with WHERE s.id = 1 is authorized, with no table left
\* unresolved.
C14_JoinChainAuthorized ==
    (/\ req.api = "AuthorizeSelect"
     /\ req.user = [Role |-> "student", ID |-> 1]
     /\ req.node = JoinChain(1)) =>
        /\ resp.st = "ok"
        /\ resp.Authorized
        /\ resp.unresolved = {}

\* the request of C14
JoinChainRequest ==
    /\ req.api = "AuthorizeSelect"
    /\ req.user = [Role |-> "student", ID |-> 1]
    /\ req.node = JoinChain(1)

\* the chain is authorized when DeepCopy gives a nil scope a new empty map,
\* and also when pinned to the id of another student
JoinChainWhenCopyEmpty ==
    (/\ copyOfNil = "empty"
     /\ req.api = "AuthorizeSelect"
     /\ req.user.Role = "student"
     /\ \E k \in Ids : req.node = JoinChain(k)) =>
        /\ resp.st = "ok"
        /\ resp.Authorized
        /\ resp.unresolved = {}

\* and the call ends in a panic when DeepCopy returns nil for a nil scope
\* or ranges over it
JoinChainWhenCopyNil ==
    (copyOfNil # "empty" /\ JoinChainRequest) => resp.st = "panic"

\* the answer to L EXCEPT R is the answer to L asked alone
ExceptEqualsLeft ==
    (req.api = "AuthorizeSelect" /\ req.node.op = "EXCEPT") =>
        \A r \in {Outcome("AuthorizeSelect",
                          Call(req.spec, req.node.larg, req.neg, req.user),
                          Scope(req.spec).tables)} :
            /\ r.st = resp.st
            /\ r.Authorized = resp.Authorized
            /\ r.tables = resp.tables
            /\ r.unresolved = resp.unresolved

\* C15: the verdict and the obligations of L EXCEPT R are those of L
\* evaluated alone; for student 1, SELECT * FROM course EXCEPT
\* SELECT * FROM student WHERE id = 2 is authorized.
C15_ExceptIsLeft ==
    /\ ExceptEqualsLeft
    /\ (/\ req.api = "AuthorizeSelect"
        /\ req.user = [Role |-> "student", ID |-> 1]
        /\ req.node.op = "EXCEPT"
        /\ req.node.larg = Select(<<RangeVar("course", "")>>, NilNode)
        /\ req.node.rarg.from = <<RangeVar("student", "")>>) =>
           resp.Authorized

\* the aliases of the descriptors of a result
Aliases(view) == {view[i].alias : i \in 1..Len(view)}

\* the obligations a result leaves on the descriptor of alias a
ObligationsOf(view, a) ==
    UNION {{view[i].obligations[j] : j \in 1..Len(view[i].obligations)} :
               i \in {k \in 1..Len(view) : view[k].alias = a}}

\* C16: the scope returned for L UNION R and for L INTERSECT R holds the
\* descriptors of both sides; the obligations of a descriptor are the
\* union over the two sides for UNION, their intersection for INTERSECT;
\* and L UNION R is authorized only if both sides are.
C16_SetOperationCombines ==
    (/\ req.api = "AuthorizeSelect"
     /\ req.node.op \in {"UNION", "INTERSECT"}) =>
        \A l \in {Outcome("AuthorizeSelect",
                          Call(req.spec, req.node.larg, req.neg, req.user),
                          Scope(req.spec).tables)} :
        \A r \in {Outcome("AuthorizeSelect",
                          Call(req.spec, req.node.rarg, req.neg, req.user),
                          Scope(req.spec).tables)} :
            (l.st = "ok" /\ r.st = "ok") =>
                /\ resp.st = "ok"
                /\ Aliases(resp.tables) = Aliases(l.tables) \cup Aliases(r.tables)
                /\ \A a \in Aliases(resp.tables) :
                       ObligationsOf(resp.tables, a) =
                           IF req.node.op = "UNION"
                           THEN ObligationsOf(l.tables, a)
                                    \cup ObligationsOf(r.tables, a)
                           ELSE IF a \in Aliases(l.tables) \cap Aliases(r.tables)
                           THEN ObligationsOf(l.tables, a)
                                    \cap ObligationsOf(r.tables, a)
                           ELSE ObligationsOf(l.tables, a)
                                    \cup ObligationsOf(r.tables, a)
                /\ req.node.op = "UNION" =>
                       (resp.Authorized => l.Authorized /\ r.Authorized)

\* C17: a NOT node with the single argument X reports the inverse of the
\* verdict X gets with the polarity flipped; for student 1 over the
\* private table student, NOT (student.id = 1) is not authorized and
\* NOT (student.id = 2) is authorized.
C17_NotInvertsVerdict ==
    (/\ req.api = "AuthorizePredicate"
     /\ req.node.t = "BoolExpr"
     /\ req.node.op = "NOT"
     /\ Len(req.node.args) = 1) =>
        /\ \A x \in {Outcome("AuthorizePredicate",
                             Call(req.spec, req.node.args[1], ~req.neg,
                                  req.user),
                             Scope(req.spec).tables)} :
               x.st = "ok" =>
                   /\ resp.st = "ok"
                   /\ resp.Authorized = ~x.Authorized
        /\ (/\ OnStudentScope("student")
            /\ req.user = [Role |-> "student", ID |-> 1]
            /\ ~req.neg) =>
               /\ req.node.args[1] = Eq("student", "id", 1) =>
                      ~resp.Authorized
               /\ req.node.args[1] = Eq("student", "id", 2) =>
                      resp.Authorized

\* C18: a SELECT that carries an INTO clause is never authorized for a
\* student or a professor.
C18_SelectIntoRefused ==
    (/\ req.api = "AuthorizeSelect"
     /\ req.node.into
     /\ req.user.Role \in {"student", "professor"}) => ~resp.Authorized

\* the request compares a.id with the caller's id, in either order, with
\* an operator, for a student against the scope holding the private table
\* student under the alias a; the descriptor is the one authorizeRangeVar
\* and the fixtures of TestAuthorizeAExpr build (no obligation map), the
\* one that is its own obligation, or one whose obligation is a copy
ComparesOwnId(a, style) ==
    /\ req.api = "AuthorizePredicate"
    /\ req.spec = <<D("student", a, style)>>
    /\ req.user.Role = "student"
    /\ req.node.t = "AExpr"
    /\ req.node.kind = "OP"
    /\ \/ /\ req.node.l = ColumnRef(<<a, "id">>)
          /\ req.node.r = AConst("int", req.user.ID)
       \/ /\ req.node.r = ColumnRef(<<a, "id">>)
          /\ req.node.l = AConst("int", req.user.ID)

\* C19: a leaf comparing the authorization column of a private table with
\* the caller's id clears the obligation of the table exactly when the
\* operator is = under positive polarity, <> under negated polarity.
C19_OperatorFollowsPolarity ==
    \A a \in {"student", "s"}, style \in {"none", "self", "copy"} :
        ComparesOwnId(a, style) =>
            /\ resp.st = "ok"
            /\ resp.unresolved = {} <=>
                   req.node.name = (IF req.neg THEN "<>" ELSE "=")
            /\ resp.Authorized <=> resp.unresolved = {}

\* the i-th argument of the BoolExpr of the request evaluated alone, with
\* the polarity the node gives it
ArgWalk(i) ==
    Outcome("argument",
            Call(req.spec, req.node.args[i],
                 IF req.node.op = "NOT" THEN ~req.neg ELSE req.neg, req.user),
            Scope(req.spec).tables)

\* the copy of the scope taken on entry of a BoolExpr (line 409) succeeds
ScopeCopied ==
    DeepCopy(Scope(req.spec).h, Scope(req.spec).tables).st = "ok"

\* an error raised below a BoolExpr, a FROM list or a sublink is returned
\* by the node: the first argument that does not return a result decides
ErrorSurfacesThroughNodes ==
    /\ (/\ req.api = "AuthorizePredicate"
        /\ req.node.t = "BoolExpr"
        /\ ScopeCopied) =>
           /\ (req.node.op = "NOT" /\ Len(req.node.args) # 1) =>
                  /\ resp.st = "err"
                  /\ resp.msg = "NOT expression must have exactly one argument"
           /\ \A i \in 1..Len(req.node.args) :
                  (/\ ArgWalk(i).st = "err"
                   /\ \A j \in 1..(i - 1) : ArgWalk(j).st = "ok") =>
                      /\ resp.st = "err"
                      /\ resp.msg = ArgWalk(i).msg
                      /\ ~resp.Authorized
    /\ (req.api = "AuthorizePredicate" /\ req.node = LateralSubLink) =>
           resp.st = "err" /\ resp.msg = "lateral is not supported"
    /\ (/\ req.api = "AuthorizeSelect"
        /\ req.node.op = "NONE"
        /\ ~req.node.into
        /\ Len(req.node.from) = 1) =>
           /\ (/\ req.node.from[1].t = "RangeSubselect"
               /\ req.node.from[1].lateral) =>
                  resp.st = "err" /\ resp.msg = "lateral is not supported"
           /\ (/\ req.node.from[1].t = "JoinExpr"
               /\ req.node.from[1].larg = NilNode) =>
                  resp.st = "err" /\ resp.msg = "left side of join is nil"
           /\ (/\ req.node.from[1].t = "JoinExpr"
               /\ req.node.from[1].larg # NilNode
               /\ req.node.from[1].rarg = NilNode) =>
                  resp.st = "err" /\ resp.msg = "right side of join is nil"

\* C20: a fatal condition raised at any depth of the walk is returned by
\* the top-level call as that error, without verdict; the row-expression =
\* subquery check too returns the error of its subquery.
C20_FatalConditionSurfaces ==
    /\ ErrorSurfacesThroughNodes
    /\ \A a \in {"student", "s"} :
           (/\ OnStudentScope(a)
            /\ req.user.Role = "student"
            /\ ~req.neg
            /\ req.node = RowLateral(a)) =>
               /\ resp.st = "err"
               /\ resp.msg = "lateral is not supported"
               /\ ~resp.Authorized

\* the request is WITH c AS (inner) SELECT * FROM c on an empty scope
CteRequest ==
    /\ req.api = "AuthorizeSelect"
    /\ req.node \in {WithCte(inner) : inner \in CteInners}

\* the descriptors of the response stored under alias a
Under(a) == {i \in 1..Len(resp.tables) : resp.tables[i].alias = a}

\* C21: a CTE whose inner SELECT is fully resolved is seen by the clauses
\* that follow as exactly one virtual descriptor named after it, without
\* obligation, so the FROM reference to it adds none; a CTE whose inner
\* SELECT leaves obligations propagates exactly those.
C21_CteIsVirtualDescriptor ==
    CteRequest =>
        /\ resp.st = "ok"
        /\ Cardinality(Under("c")) = 1
        /\ \A i \in Under("c") : ~resp.tables[i].isDatabase
        /\ (\/ req.node.ctes[1].query.from[1].rel = "course"
            \/ /\ req.node.ctes[1].query.where # NilNode
               /\ req.user.Role = "student"
               /\ req.node.ctes[1].query.where
                      = Eq("student", "id", req.user.ID))
               => /\ resp.unresolved = {}
                  /\ resp.Authorized
        /\ req.node.ctes[1].query = FromStudent
               => /\ resp.unresolved # {}
                  /\ ~resp.Authorized

\* the alias a range variable is stored under
StoredAlias(rv) == IF rv.alias = "" THEN rv.rel ELSE rv.alias

\* the descriptor the response holds for range variable rv: a database
\* table under its alias, without obligation when public and with itself
\* as only obligation otherwise
DescriptorOf(rv) ==
    /\ resp.st = "ok"
    /\ \E i \in 1..Len(resp.tables) :
        /\ resp.tables[i].alias = StoredAlias(rv)
        /\ resp.tables[i].name = rv.rel
        /\ resp.tables[i].isDatabase
        /\ IF isPublicTable(rv.rel)
           THEN resp.tables[i].obligations \in {<<>>, <<"nil">>}
           ELSE resp.tables[i].obligations = <<StoredAlias(rv)>>

\* C22: every range variable reached through the dispatcher yields a
\* descriptor marked as a database table, stored under its alias (its
\* relation name when unaliased), whose obligations are empty for a public
\* table and exactly the descriptor itself, keyed by its alias, otherwise.
C22_RangeVarDescriptor ==
    /\ req.api = "authorizeRangeVar" => DescriptorOf(req.node)
    /\ (/\ req.api = "AuthorizeSelect"
        /\ req.node.op = "NONE"
        /\ ~req.node.into
        /\ req.node.ctes = <<>>
        /\ Len(req.node.from) = 1
        /\ req.node.from[1].t = "RangeVar"
        /\ req.node.where = NilNode
        /\ req.node.having = NilNode) => DescriptorOf(req.node.from[1])

\* C23: at every return of a node authorizer the verdict is Authorized
\* exactly when every descriptor of the returned scope has an empty
\* obligation set.
C23_VerdictIffNoObligation ==
    (/\ req.api \in {"AuthorizeSelect", "AuthorizePredicate"}
     /\ resp.st = "ok") => (resp.Authorized <=> resp.unresolved = {})

\* what side n of the requested join yields when authorized alone against
\* the scope of the request
SideOutcome(n) ==
    Outcome("side", Call(req.spec, n, req.neg, req.user),
            Scope(req.spec).tables)

\* the request is a join of kind jt, without USING or NATURAL, ON FALSE,
\* whose sides each complete and are not both authorized
PlainJoinRequest(jt) ==
    /\ req.api = "AuthorizeJoin"
    /\ req.node.jt = jt
    /\ ~req.node.using /\ ~req.node.natural
    /\ req.node.quals = ConstFalse
    /\ SideOutcome(req.node.larg).st = "ok"
    /\ SideOutcome(req.node.rarg).st = "ok"
    /\ ~(SideOutcome(req.node.larg).Authorized
         /\ SideOutcome(req.node.rarg).Authorized)

\* the scope the ON clause saw holds every descriptor of view, with its
\* obligations removed when emptied and unchanged otherwise
SeenByOn(view, emptied) ==
    \A i \in 1..Len(view) :
        \E j \in 1..Len(resp.tables) :
            /\ resp.tables[j].alias = view[i].alias
            /\ resp.tables[j].obligations =
                   IF emptied THEN <<>> ELSE view[i].obligations

\* the sides of the requested join yield descriptors under different aliases
DisjointSides ==
    \A i \in 1..Len(SideOutcome(req.node.larg).tables) :
        \A j \in 1..Len(SideOutcome(req.node.rarg).tables) :
            SideOutcome(req.node.larg).tables[i].alias
                # SideOutcome(req.node.rarg).tables[j].alias

\* C24: for a join without USING or NATURAL whose sides are not both
\* authorized, the ON clause of a LEFT join sees the right side's
\* descriptors without obligations and the left side's unchanged, that of a
\* RIGHT join the left side's without obligations and the right side's
\* unchanged, and that of a FULL join both sides unchanged.
C24_OuterJoinObligations ==
    \A jt \in {"LEFT", "RIGHT", "FULL"} :
        (PlainJoinRequest(jt) /\ DisjointSides) =>
            /\ resp.st = "ok"
            /\ SeenByOn(SideOutcome(req.node.larg).tables, jt = "RIGHT")
            /\ SeenByOn(SideOutcome(req.node.rarg).tables, jt = "LEFT")

\* the elements of sequence s
Range(s) == {s[i] : i \in 1..Len(s)}

\* the obligations of descriptor d of one side that the descriptors of the
\* opposite side naming the same relation carry as well
SharedWith(d, opposite) ==
    {o \in Range(d.obligations) :
        \E j \in 1..Len(opposite) :
            /\ opposite[j].name = d.name
            /\ o \in Range(opposite[j].obligations)}

\* every descriptor of side own is in the response with exactly the
\* obligations it shares with side opposite
IntersectedWith(own, opposite) ==
    \A i \in 1..Len(own) :
        \E j \in 1..Len(resp.tables) :
            /\ resp.tables[j].alias = own[i].alias
            /\ Range(resp.tables[j].obligations)
                   = SharedWith(own[i], opposite)

\* C25: an INNER join replaces each descriptor's obligations by their
\* intersection with those of the opposite side's descriptors naming the
\* same relation; it completes for any two sides, those with disjoint alias
\* sets included, and removes no obligation because the opposite side still
\* carries it.
C25_InnerJoinIntersects ==
    PlainJoinRequest("INNER") =>
        /\ resp.st = "ok"
        /\ IntersectedWith(SideOutcome(req.node.larg).tables,
                           SideOutcome(req.node.rarg).tables)
        /\ IntersectedWith(SideOutcome(req.node.rarg).tables,
                           SideOutcome(req.node.larg).tables)

\* the request compares column c of the virtual descriptor subquery with
\* the caller's own id, for a student, against the scope holding that
\* descriptor alone; exposed is the name under which the descriptor exposes
\* student.id
VirtualRequest(c, exposed) ==
    /\ req.api = "AuthorizePredicate"
    /\ req.spec = <<D("subquery", "subquery",
                      IF exposed = "sid" THEN "renamed" ELSE "")>>
    /\ ~req.neg
    /\ req.user.Role = "student"
    /\ req.node = Eq("subquery", c, req.user.ID)

\* the obligations left on the virtual descriptor subquery
LeftOnVirtual ==
    UNION {Range(resp.tables[i].obligations) :
              i \in {j \in 1..Len(resp.tables) :
                        resp.tables[j].alias = "subquery"}}

\* C26: on a virtual descriptor V, V.a = id clears obligation o exactly
\* when column a, followed through the column lineage, is the authorization
\* column of the database table of o; an authorization column exposed under
\* another name (SELECT s.id AS sid) is cleared through that name.
C26_LineageClears ==
    \A exposed \in {"id", "sid"} : \A c \in {"id", "sid", "name"} :
        VirtualRequest(c, exposed) =>
            /\ resp.st = "ok"
            /\ "student" \in LeftOnVirtual <=> c # exposed
            /\ "course" \in LeftOnVirtual

\* C27: Clone and the resolution of a column's lineage terminate on every
\* descriptor the authorizer can build: a private table whose obligation
\* set contains the table itself, a virtual descriptor over another, and
\* their clones; no call ends in unbounded recursion.
C27_CloneTerminates ==
    req.api \in {"AuthorizePredicate", "AuthorizeSelect", "AuthorizeJoin"}
        => resp.st # "overflow"

\* the outcome of node n against the request's scope under polarity neg
Under_(n, neg) ==
    Outcome(req.api, Call(req.spec, n, neg, req.user), Scope(req.spec).tables)

\* the request is NOT (NOT a) for a comparison a
DoubleNot ==
    /\ req.api = "AuthorizePredicate"
    /\ req.node.t = "BoolExpr"
    /\ req.node.op = "NOT"
    /\ Len(req.node.args) = 1
    /\ req.node.args[1].t = "BoolExpr"
    /\ req.node.args[1].op = "NOT"
    /\ Len(req.node.args[1].args) = 1

\* the polarity is reset on entering a SubLink: the outcome of a SubLink
\* does not depend on the polarity it is reached with; and NOT hands its
\* argument the opposite polarity: on a scope without obligation NOT a is
\* authorized exactly when a is refused under the opposite polarity
PolarityPropagates ==
    /\ (req.api = "AuthorizePredicate" /\ req.node.t = "SubLink")
           => resp = Under_(req.node, ~req.neg)
    /\ (/\ req.api = "AuthorizePredicate"
        /\ req.node.t = "BoolExpr"
        /\ req.node.op = "NOT"
        /\ Len(req.node.args) = 1
        /\ resp.st = "ok"
        /\ resp.unresolved = {})
           => resp.Authorized
                  = ~Under_(req.node.args[1], ~req.neg).Authorized

\* C28: the polarity starts positive, is toggled by NOT only, is passed
\* unchanged by AND, OR, joins and SELECT, and is reset to positive on
\* entering a SubLink or a subselect of FROM; so NOT (NOT (t.c = id))
\* clears exactly the obligations that t.c = id clears.
C28_DoubleNotClearsAsAtom ==
    /\ PolarityPropagates
    /\ DoubleNot =>
           /\ resp.st = Under_(req.node.args[1].args[1], req.neg).st
           /\ resp.unresolved
                  = Under_(req.node.args[1].args[1], req.neg).unresolved

\* the scope of the request as the caller built it
Given == ScopeView(Scope(req.spec).h, Scope(req.spec).tables)

\* view holds the aliases of the request's scope, in the same order, each
\* with obligations among those it had in the request's scope
WithinGiven(view) ==
    /\ Len(view) = Len(Given)
    /\ \A i \in 1..Len(view) :
        /\ view[i].alias = Given[i].alias
        /\ Range(view[i].obligations) \subseteq Range(Given[i].obligations)

\* the combinator of the requested AND or OR, applied as authorizeBoolExpr
\* applies it, leaves every scope of its list as it was
ListScopesKept ==
    \A dc \in {DeepCopy(Scope(req.spec).h, Scope(req.spec).tables)} :
        dc.st = "ok" =>
        \A as \in {boolArgs(dc.h, req.node.args, 1, Scope(req.spec).tables,
                            req.neg, req.user, <<>>)} :
            as.st = "ok" =>
            \A u \in {IF req.node.op = "OR"
                       THEN combineOr(as.h, dc.a, as.list)
                       ELSE combineAnd(as.h, dc.a, as.list)} :
                u.st = "ok" =>
                \A i \in 1..Len(as.list) :
                    ScopeView(u.h, as.list[i]) = ScopeView(as.h, as.list[i])

\* C29: evaluating a predicate adds neither an obligation nor a table: the
\* scope returned has the aliases of the scope given, each with a subset of
\* the obligations it had; and the combinators of AND and OR change their
\* destination only, never a scope of the list they combine.
C29_PredicateOnlyRemoves ==
    (/\ req.api = "AuthorizePredicate"
     /\ req.node.t \in {"AExpr", "BoolExpr"}
     /\ resp.st = "ok") =>
        /\ WithinGiven(resp.tables)
        /\ (req.node.t = "BoolExpr" /\ req.node.op \in {"AND", "OR"})
               => ListScopesKept

\* a comparison or an AND or OR cleared an obligation of the scope given
C29_Witness ==
    /\ req.api = "AuthorizePredicate"
    /\ req.node.t = "BoolExpr"
    /\ req.node.op \in {"AND", "OR"}
    /\ Len(req.node.args) = 2
    /\ resp.st = "ok"
    /\ \E i \in 1..Len(Given) :
        /\ Range(Given[i].obligations) # {}
        /\ resp.tables[i].obligations = <<>>

\* the number of [DONE] lines written to the client
DoneWritten == Cardinality({i \in 1..Len(written) : written[i] = "[DONE]"})

\* [DONE] is written at most once and only after a chunk with Done set was
\* received
DoneWrittenOnce ==
    /\ DoneWritten <= 1
    /\ DoneWritten = 1 => chunk.Done

\* C30: the goroutine started by StreamComplete always terminates and
\* closes the chunk channel, in every interleaving, also when the loop of
\* StreamChatResponse returned early and nobody receives any more, and when
\* the upstream ends with an error other than EOF; the loop writes [DONE]
\* at most once and only after it received a chunk with Done set.
C30_ProducerAlwaysCloses ==
    /\ (producer # "none") ~> closed
    /\ []DoneWrittenOnce

====
